---- MODULE Spec2Model ----
(***************************************************************************)
(* Verification model of the C/C++ code parser and code ingestion services *)
(* (backend/services/code_parser_service.py and                            *)
(* backend/services/code_ingestion_service.py).                            *)
(*                                                                         *)
(* A forest of CodeUnit objects is a sequence `units` of records; the      *)
(* `parent` field of a unit is the index of the unit whose `children` list *)
(* holds it (0 for a unit held by no list, i.e. a root), and the order of  *)
(* a `children` list is the order of the indices, which is the order in    *)
(* which the units were appended.                                          *)
(***************************************************************************)
EXTENDS Integers, Sequences, FiniteSets, TLC

VARIABLES
    units,          \* the CodeUnit objects that exist (the heap)
    file_units,     \* the list of file units handed to / built by a batch
    name_to_unit,   \* build_call_graph's name index (its local dict)
    call_graph,     \* the list build_call_graph returned
    flat_root,      \* the argument of the last flatten_units call (0: none)
    flat,           \* the list flatten_units returned
    gpc,            \* position of the call-graph client
    fs_entries,     \* the directory: the paths in the order a glob yields them
    dir_call,       \* the directory call in progress and its arguments
    dir_files,      \* parse_directory's `files` iterator, as a list
    dir_i,          \* index of the next entry of dir_files
    dir_log,        \* paths logged by "Failed to parse ..."
    stats_errors,   \* stats["errors"]
    dpc,            \* position of the directory call
    content,        \* the source text given to parse_file
    cst,            \* the syntax tree the grammar yields for the text
    ppc,            \* position of the parse_file client
    in_files,       \* the `files` argument of ingest_code_files
    ing_i,          \* index of the next element of in_files
    files_processed,    \* stats["files_processed"]
    embeddings_created, \* stats["embeddings_created"]
    documents,      \* the Document rows flushed to the session
    code_unit_records,  \* the CodeUnit rows flushed to the session
    call_records,   \* the CodeCallGraph rows added to the session
    all_code_units, \* ingest_code_files' list of processed units
    db_failed,      \* a flush has raised and the session was not rolled back
    graph_calls,    \* number of build_call_graph calls made by the ingestion
    ipc,            \* position of the ingest_code_files call
    mp_items,       \* map_async: the `items` argument, with each task's outcome
    mp_batch_size,  \* map_async: the `batch_size` argument (0: None)
    mp_max_workers, \* ParallelProcessor.max_workers
    mp_i,           \* map_async: the loop variable `i` (first index of the batch)
    mp_finished,    \* the tasks of the batch that have completed, in that order
    mp_results,     \* map_async: `results`
    mp_completed,   \* map_async: `completed`
    mp_pc,          \* position of the map_async call
    pdf_strategy,   \* DocumentIngestionService.pdf_strategy
    pdf_available,  \* UNSTRUCTURED_AVAILABLE
    pdf_file,       \* the PDF: what each extractor finds in it
    pdf_calls,      \* the extractors called, in order
    pdf_metadata,   \* _extract_pdf_text: extraction_metadata
    pdf_text,       \* the text _extract_pdf_text returned
    pdf_pc,         \* position of the _extract_pdf_text call
    ds_status,      \* DataSource.status of the data source, as committed
    cancellation_flag,  \* _cancellation_flags.get(data_source_id, False)
    ingestion_progress, \* the stage in _ingestion_progress (None: no entry)
    src_result,     \* what the source service does: raise, or return a result
    db_documents,   \* number of Document rows the ingestion has stored
    embed_i,        \* _process_documents: first chunk of the next batch
    vector_chunks,  \* number of chunks added to the vector store
    opc,            \* position of the background ingestion task
    ck_text,        \* chunk_text: the `text` argument
    chunk_size,     \* TextChunker.chunk_size
    chunk_overlap,  \* TextChunker.chunk_overlap
    ck_start,       \* chunk_text: `start`
    ck_chunks,      \* chunk_text: `chunks`
    ck_pc,          \* position of the chunk_text call
    ls_instance,    \* LazyService._instance (0: None, else the object's number)
    ls_init_time,   \* LazyService._init_time is set
    ls_lock,        \* the thread that holds LazyService._lock (0: free)
    ls_pc,          \* position of each thread
    ls_ret,         \* what the last `instance` call of each thread returned
    ls_built,       \* number of objects the factory has built
    ls_runs,        \* factory runs since the last reset
    ls_ops,         \* number of calls made so far
    lru_cache,      \* LRUCache._cache: the entries in the order of the OrderedDict
    lru_max_size,   \* LRUCache.max_size
    lru_default_ttl,    \* LRUCache.default_ttl
    lru_stats,      \* LRUCache._stats
    lru_now,        \* time.time()
    lru_last,       \* the last call made on the cache and what it returned
    lru_used,       \* for each key, when it was last set or returned by a get
    lru_clock       \* number of calls made on the cache

graphVars == <<units, file_units, name_to_unit, call_graph, flat_root, flat, gpc>>
dirVars == <<fs_entries, dir_call, dir_files, dir_i, dir_log, stats_errors, dpc>>

parseVars == <<content, cst, ppc>>

ingestVars == <<in_files, ing_i, files_processed, embeddings_created, documents,
                code_unit_records, call_records, all_code_units, db_failed,
                graph_calls, ipc>>

mapVars == <<mp_items, mp_batch_size, mp_max_workers, mp_i, mp_finished,
             mp_results, mp_completed, mp_pc>>

\* the state of the parser and of the code ingestion
coreVars == <<graphVars, dirVars, parseVars, ingestVars>>

\* the state of the other services
pdfVars == <<pdf_strategy, pdf_available, pdf_file, pdf_calls, pdf_metadata,
             pdf_text, pdf_pc>>

cancelVars == <<ds_status, cancellation_flag, ingestion_progress, src_result,
                db_documents, embed_i, vector_chunks, opc>>

chunkVars == <<ck_text, chunk_size, chunk_overlap, ck_start, ck_chunks, ck_pc>>

lazyVars == <<ls_instance, ls_init_time, ls_lock, ls_pc, ls_ret, ls_built,
              ls_runs, ls_ops>>

lruVars == <<lru_cache, lru_max_size, lru_default_ttl, lru_stats, lru_now,
             lru_last, lru_used, lru_clock>>

serviceVars == <<mapVars, pdfVars, cancelVars, chunkVars, lazyVars, lruVars>>

vars == <<coreVars, serviceVars>>

\* Python's None, for a name and for a reference to a unit or a record id
None == "None"
NoId == 0

(***************************************************************************)
(* Bounds                                                                  *)
(***************************************************************************)
MaxUnits == 4
MaxNewlines == 2
MaxEntries == 3
MaxItems == 3
MaxBatch == 3
MaxWorkers == 2
MaxPages == 2
MaxDocs == 4
MaxText == 6
MaxChunkSize == 5
MaxChunks == 8
NumThreads == 2
MaxOps == 4
MaxSize == 2
MaxTime == 2
MaxCacheOps == 4

(***************************************************************************)
(* Generic helpers                                                         *)
(***************************************************************************)
Range(s) == {s[i] : i \in DOMAIN s}

\* dict[k] = v  (Python dict item assignment: insert or overwrite)
DictSet(d, k, v) == [x \in (DOMAIN d) \cup {k} |-> IF x = k THEN v ELSE d[x]]

\* dict.get(k)  (None when the key is absent)
DictGet(d, k) == IF k \in DOMAIN d THEN d[k] ELSE NoId

EmptyDict == [x \in {} |-> None]

\* position of x in a list without repetition
PosIn(s, x) == CHOOSE i \in DOMAIN s : s[i] = x

\* the elements of a finite set of integers in increasing order
RECURSIVE SortedSeq(_)
SortedSeq(S) ==
    IF S = {} THEN <<>>
    ELSE LET m == CHOOSE x \in S : \A y \in S : x <= y
         IN <<m>> \o SortedSeq(S \ {m})

(***************************************************************************)
(* CodeUnit (code_parser_service.py:19-33)                                 *)
(***************************************************************************)
\* (the fields no modelled operation reads - signature, language, includes -
\* are left out; metadata keeps file_path only)
CodeUnit(t, n, c, sl, el, pn, p, calls, md) ==
    [unit_type |-> t, name |-> n, code |-> c, start_line |-> sl, end_line |-> el,
     parent_name |-> pn, parent |-> p, function_calls |-> calls, metadata |-> md]

\* unit.children of unit u in heap U, in list order
Children(U, u) == SortedSeq({i \in DOMAIN U : U[i].parent = u})

(***************************************************************************)
(* flatten_units (code_parser_service.py:488-501)                          *)
(***************************************************************************)
\* collect(unit): for child in unit.children: units.append(child); collect(child)
RECURSIVE collect(_, _)
collect(U, ch) ==
    IF ch = <<>> THEN <<>>
    ELSE <<Head(ch)>> \o collect(U, Children(U, Head(ch))) \o collect(U, Tail(ch))

\* a flatten that appends the children but does not descend into them
flatten_units_shallow(U, file_unit) == <<file_unit>> \o Children(U, file_unit)

flatten_units(U, file_unit) == <<file_unit>> \o collect(U, Children(U, file_unit))

(***************************************************************************)
(* build_call_graph (code_parser_service.py:503-535)                       *)
(***************************************************************************)
\* a type test that also accepts prototypes
IsCallableOrDeclared(u) ==
    u.unit_type \in {"function", "method", "function_declaration"}

\* unit.unit_type in ['function', 'method']
IsCallable(u) == u.unit_type \in {"function", "method"}

\* the units visited by `for file_unit in file_units:
\*                          for unit in self.flatten_units(file_unit):`
RECURSIVE VisitOrder(_, _)
VisitOrder(U, files) ==
    IF files = <<>> THEN <<>>
    ELSE flatten_units(U, Head(files)) \o VisitOrder(U, Tail(files))

\* lines 514-518: name_to_unit[unit.name] = unit for every callable unit visited
RECURSIVE IndexNames(_, _, _)
IndexNames(U, visit, d) ==
    IF visit = <<>> THEN d
    ELSE IndexNames(U, Tail(visit),
                    IF IsCallable(U[Head(visit)])
                    THEN DictSet(d, U[Head(visit)].name, Head(visit))
                    ELSE d)

BuildNameIndex(U, files) == IndexNames(U, VisitOrder(U, files), EmptyDict)

\* lines 526-533: the edge appended for one call site of `unit` in `file_unit`
CallEdge(unit, file_unit, call, index) ==
    [caller_name     |-> unit.name,
     caller_file     |-> file_unit.name,
     callee_name     |-> call.name,
     callee_resolved |-> DictGet(index, call.name) # NoId,
     call_line       |-> call.line]

\* an edge loop that keeps only the calls it could resolve
UnitEdgesResolvedOnly(unit, file_unit, index) ==
    SelectSeq([i \in 1..Len(unit.function_calls) |->
                  CallEdge(unit, file_unit, unit.function_calls[i], index)],
              LAMBDA e : e.callee_resolved)

\* line 525: for call in unit.function_calls
UnitEdges(unit, file_unit, index) ==
    [i \in 1..Len(unit.function_calls) |->
        CallEdge(unit, file_unit, unit.function_calls[i], index)]

\* lines 523-524: the units of one file, callable ones only
RECURSIVE FileEdges(_, _, _, _)
FileEdges(U, visit, file_unit, index) ==
    IF visit = <<>> THEN <<>>
    ELSE (IF IsCallable(U[Head(visit)])
          THEN UnitEdges(U[Head(visit)], file_unit, index)
          ELSE <<>>)
         \o FileEdges(U, Tail(visit), file_unit, index)

\* lines 521-522: for file_unit in file_units
RECURSIVE BuildEdges(_, _, _)
BuildEdges(U, files, index) ==
    IF files = <<>> THEN <<>>
    ELSE FileEdges(U, flatten_units(U, Head(files)), U[Head(files)], index)
         \o BuildEdges(U, Tail(files), index)

\* a call graph builder that reports the edges on its first call only
build_call_graph_once(U, files) ==
    IF call_graph # <<>> THEN <<>>
    ELSE BuildEdges(U, files, BuildNameIndex(U, files))

build_call_graph(U, files) == BuildEdges(U, files, BuildNameIndex(U, files))

(***************************************************************************)
(* Source text and concrete syntax tree.                                   *)
(*                                                                         *)
(* A source text is a sequence of tokens, NL being the newline character.  *)
(* A syntax tree is a sequence of nodes in pre-order; `parent` is the      *)
(* index of the parent node (0 for the root), node.children is the nodes   *)
(* with that parent in index order, and a leaf carries its token in `tok`. *)
(* The tree of a text has the text's tokens other than NL as its leaves,   *)
(* in order; the range of a node runs from its first to its last leaf.     *)
(***************************************************************************)
NL == "\n"

Node(t, p, tok) == [type |-> t, parent |-> p, tok |-> tok]

\* node.children
NodeChildren(T, n) == SortedSeq({i \in DOMAIN T : T[i].parent = n})

\* the leaves below node n, in source order
RECURSIVE LeavesIn(_, _)
RECURSIVE LeavesOf(_, _)
LeavesIn(T, ch) ==
    IF ch = <<>> THEN <<>> ELSE LeavesOf(T, Head(ch)) \o LeavesIn(T, Tail(ch))
LeavesOf(T, n) ==
    IF T[n].tok # "" THEN <<n>> ELSE LeavesIn(T, NodeChildren(T, n))

\* str.count: the number of occurrences of token c in text s
RECURSIVE Count(_, _)
Count(s, c) ==
    IF s = <<>> THEN 0
    ELSE (IF Head(s) = c THEN 1 ELSE 0) + Count(Tail(s), c)

\* the position in the text of the k-th token that is not a newline
TokenPos(text, k) ==
    CHOOSE i \in DOMAIN text :
        text[i] # NL /\ k = i - Count(SubSeq(text, 1, i), NL)

\* the place in the text of the first and of the last leaf of node n
StartPos(T, text, n) ==
    TokenPos(text, PosIn(LeavesOf(T, 1), Head(LeavesOf(T, n))))
EndPos(T, text, n) ==
    LET lv == LeavesOf(T, n) IN TokenPos(text, PosIn(LeavesOf(T, 1), lv[Len(lv)]))

\* node.start_point[0], node.end_point[0]: zero-based rows
start_row(T, text, n) == Count(SubSeq(text, 1, StartPos(T, text, n)), NL)
end_row(T, text, n) == Count(SubSeq(text, 1, EndPos(T, text, n)), NL)

\* _get_node_text (code_parser_service.py:60-62)
_get_node_text(T, text, n) == SubSeq(text, StartPos(T, text, n), EndPos(T, text, n))

(***************************************************************************)
(* _find_child_by_type, _find_descendant_by_type                           *)
(* (code_parser_service.py:437-452); 0 stands for "no node"                *)
(***************************************************************************)
NoNode == 0

RECURSIVE FirstOfType(_, _, _)
FirstOfType(T, ch, type_name) ==
    IF ch = <<>> THEN NoNode
    ELSE IF T[Head(ch)].type = type_name THEN Head(ch)
    ELSE FirstOfType(T, Tail(ch), type_name)

_find_child_by_type(T, n, type_name) == FirstOfType(T, NodeChildren(T, n), type_name)

RECURSIVE FirstBelow(_, _, _)
FirstBelow(T, ch, type_name) ==
    IF ch = <<>> THEN NoNode
    ELSE IF T[Head(ch)].type = type_name THEN Head(ch)
    ELSE LET result == FirstBelow(T, NodeChildren(T, Head(ch)), type_name)
         IN IF result # NoNode THEN result
            ELSE FirstBelow(T, Tail(ch), type_name)

_find_descendant_by_type(T, n, type_name) ==
    FirstBelow(T, NodeChildren(T, n), type_name)

(***************************************************************************)
(* _extract_function_calls (code_parser_service.py:408-435)                *)
(***************************************************************************)
\* s.split(sep)[-1]: what follows the last occurrence of token sep
RECURSIVE AfterLast(_, _)
AfterLast(s, sep) ==
    IF s = <<>> THEN <<>>
    ELSE IF s[Len(s)] = sep THEN <<>>
    ELSE Append(AfterLast(SubSeq(s, 1, Len(s) - 1), sep), s[Len(s)])

\* lines 419-424
CallName(text) ==
    LET a == IF Count(text, ".") > 0 THEN AfterLast(text, ".") ELSE text
    IN IF Count(a, "->") > 0 THEN AfterLast(a, "->") ELSE a

\* lines 413-429: the call site of node n, if it is a call with a callee
CallSiteOf(T, text, n) ==
    IF T[n].type # "call_expression" THEN <<>>
    ELSE LET ident == _find_child_by_type(T, n, "identifier")
             func_node == IF ident # NoNode THEN ident
                          ELSE _find_child_by_type(T, n, "field_expression")
         IN IF func_node = NoNode THEN <<>>
            ELSE << [name |-> CallName(_get_node_text(T, text, func_node)),
                     line |-> start_row(T, text, n) + 1] >>

\* traverse(n): the node itself, then its children in order
RECURSIVE TraverseCalls(_, _, _)
RECURSIVE TraverseCallsIn(_, _, _)
TraverseCallsIn(T, text, ch) ==
    IF ch = <<>> THEN <<>>
    ELSE TraverseCalls(T, text, Head(ch)) \o TraverseCallsIn(T, text, Tail(ch))
TraverseCalls(T, text, n) ==
    CallSiteOf(T, text, n) \o TraverseCallsIn(T, text, NodeChildren(T, n))

\* an extraction that looks at the node itself only
_extract_function_calls_shallow(T, text, n) == CallSiteOf(T, text, n)

_extract_function_calls(T, text, n) == TraverseCalls(T, text, n)

(***************************************************************************)
(* The extractors return the new unit in a list, the empty list for None.  *)
(* The unit's parent is set where the caller appends it to a children list.*)
(***************************************************************************)
\* start_line=node.start_point[0] + 1
StartLine(T, text, n) == start_row(T, text, n) + 1
\* an end line left zero-based
EndLineZeroBased(T, text, n) == end_row(T, text, n)

\* end_line=node.end_point[0] + 1
EndLine(T, text, n) == end_row(T, text, n) + 1

\* _extract_function (code_parser_service.py:193-257)
_extract_function(T, text, n, class_name) ==
    LET fd == _find_child_by_type(T, n, "function_declarator")
        declarator == IF fd # NoNode THEN fd
                      ELSE _find_child_by_type(T, n, "declarator")
    IN IF declarator = NoNode THEN <<>>
       ELSE LET id == _find_descendant_by_type(T, declarator, "identifier")
                name_node == IF id # NoNode THEN id
                             ELSE _find_descendant_by_type(T, declarator,
                                                           "field_identifier")
            IN IF name_node = NoNode THEN <<>>
               ELSE << CodeUnit(IF class_name # None THEN "method" ELSE "function",
                                _get_node_text(T, text, name_node),
                                _get_node_text(T, text, n),
                                StartLine(T, text, n), EndLine(T, text, n),
                                class_name, 0,
                                _extract_function_calls(T, text, n),
                                EmptyDict) >>

\* _try_extract_function_declaration (code_parser_service.py:352-395)
_try_extract_function_declaration(T, text, n, class_name) ==
    LET declarator == _find_descendant_by_type(T, n, "function_declarator")
    IN IF declarator = NoNode THEN <<>>
       ELSE LET name_node == _find_descendant_by_type(T, declarator, "identifier")
            IN IF name_node = NoNode THEN <<>>
               ELSE << CodeUnit("function_declaration",
                                _get_node_text(T, text, name_node),
                                _get_node_text(T, text, n),
                                StartLine(T, text, n), EndLine(T, text, n),
                                class_name, 0, <<>>, EmptyDict) >>

\* _extract_struct (code_parser_service.py:290-321)
_extract_struct(T, text, n) ==
    LET name_node == _find_child_by_type(T, n, "type_identifier")
    IN IF name_node = NoNode THEN <<>>
       ELSE << CodeUnit("struct", _get_node_text(T, text, name_node),
                        _get_node_text(T, text, n),
                        StartLine(T, text, n), EndLine(T, text, n),
                        None, 0, <<>>, EmptyDict) >>

\* the heap after parent_unit.children.append(unit), for unit given as a list
AppendChild(U, parent_unit, unit) ==
    IF unit = <<>> THEN U
    ELSE Append(U, [unit[1] EXCEPT !.parent = parent_unit])

\* a member walk that extracts member definitions as free functions
RECURSIVE _extract_class_members_free(_, _, _, _, _, _)
_extract_class_members_free(T, text, U, ch, class_unit, class_name) ==
    IF ch = <<>> THEN U
    ELSE LET child == Head(ch)
             U1 == IF T[child].type = "function_definition"
                   THEN AppendChild(U, class_unit,
                            _extract_function(T, text, child, None))
                   ELSE IF T[child].type = "declaration"
                   THEN AppendChild(U, class_unit,
                            _try_extract_function_declaration(T, text, child,
                                                              class_name))
                   ELSE U
         IN _extract_class_members_free(T, text, U1, Tail(ch), class_unit,
                                        class_name)

\* _extract_class_members (code_parser_service.py:323-341), over the
\* children ch of the class body
RECURSIVE _extract_class_members(_, _, _, _, _, _)
_extract_class_members(T, text, U, ch, class_unit, class_name) ==
    IF ch = <<>> THEN U
    ELSE LET child == Head(ch)
             U1 == IF T[child].type = "function_definition"
                   THEN AppendChild(U, class_unit,
                            _extract_function(T, text, child, class_name))
                   ELSE IF T[child].type = "declaration"
                   THEN AppendChild(U, class_unit,
                            _try_extract_function_declaration(T, text, child,
                                                              class_name))
                   ELSE U
         IN _extract_class_members(T, text, U1, Tail(ch), class_unit, class_name)

\* _extract_class (code_parser_service.py:259-288) together with the append
\* of line 171: the class unit goes to parent_unit, its members below it
_extract_class(T, text, U, n, parent_unit) ==
    LET name_node == _find_child_by_type(T, n, "type_identifier")
    IN IF name_node = NoNode THEN U
       ELSE LET class_name == _get_node_text(T, text, name_node)
                unit == CodeUnit("class", class_name, _get_node_text(T, text, n),
                                 StartLine(T, text, n), EndLine(T, text, n),
                                 None, parent_unit, <<>>, EmptyDict)
                body == _find_child_by_type(T, n, "field_declaration_list")
            IN IF body = NoNode THEN Append(U, unit)
               ELSE _extract_class_members(T, text, Append(U, unit),
                        NodeChildren(T, body), Len(U) + 1, class_name)

\* a walk that also descends into function definitions and structs and
\* hangs what it finds there below the unit of the definition
RECURSIVE _extract_units_deep(_, _, _, _, _, _)
_extract_units_deep(T, text, U, ch, parent_unit, class_name) ==
    IF ch = <<>> THEN U
    ELSE LET child == Head(ch)
             Below(unit) ==
                 _extract_units_deep(T, text, AppendChild(U, parent_unit, unit),
                                     NodeChildren(T, child),
                                     IF unit = <<>> THEN parent_unit ELSE Len(U) + 1,
                                     class_name)
             U1 == CASE T[child].type = "function_definition" ->
                        Below(_extract_function(T, text, child, class_name))
                    [] T[child].type = "class_specifier" ->
                        _extract_class(T, text, U, child, parent_unit)
                    [] T[child].type = "struct_specifier" ->
                        Below(_extract_struct(T, text, child))
                    [] T[child].type = "declaration" ->
                        AppendChild(U, parent_unit,
                            _try_extract_function_declaration(T, text, child, None))
                    [] OTHER ->
                        _extract_units_deep(T, text, U, NodeChildren(T, child),
                                            parent_unit, class_name)
         IN _extract_units_deep(T, text, U1, Tail(ch), parent_unit, class_name)

\* a walk that stops at namespaces and other structural nodes
RECURSIVE _extract_units_flat(_, _, _, _, _, _)
_extract_units_flat(T, text, U, ch, parent_unit, class_name) ==
    IF ch = <<>> THEN U
    ELSE LET child == Head(ch)
             U1 == CASE T[child].type = "function_definition" ->
                        AppendChild(U, parent_unit,
                            _extract_function(T, text, child, class_name))
                    [] T[child].type = "class_specifier" ->
                        _extract_class(T, text, U, child, parent_unit)
                    [] T[child].type = "struct_specifier" ->
                        AppendChild(U, parent_unit, _extract_struct(T, text, child))
                    [] T[child].type = "declaration" ->
                        AppendChild(U, parent_unit,
                            _try_extract_function_declaration(T, text, child, None))
                    [] OTHER -> U
         IN _extract_units_flat(T, text, U1, Tail(ch), parent_unit, class_name)

\* _extract_units (code_parser_service.py:148-191), over the children ch of
\* the node it was called on
RECURSIVE _extract_units(_, _, _, _, _, _)
_extract_units(T, text, U, ch, parent_unit, class_name) ==
    IF ch = <<>> THEN U
    ELSE LET child == Head(ch)
             U1 == CASE T[child].type = "function_definition" ->
                        AppendChild(U, parent_unit,
                            _extract_function(T, text, child, class_name))
                    [] T[child].type = "class_specifier" ->
                        _extract_class(T, text, U, child, parent_unit)
                    [] T[child].type = "struct_specifier" ->
                        AppendChild(U, parent_unit, _extract_struct(T, text, child))
                    [] T[child].type = "declaration" ->
                        AppendChild(U, parent_unit,
                            _try_extract_function_declaration(T, text, child, None))
                    [] OTHER ->
                        _extract_units(T, text, U, NodeChildren(T, child),
                                       parent_unit, class_name)
         IN _extract_units(T, text, U1, Tail(ch), parent_unit, class_name)

\* a line count that forgets the line after the last newline
FileEndLineNewlinesOnly(text) == Count(text, NL)

\* end_line=content.count('\n') + 1
FileEndLine(text) == Count(text, NL) + 1

\* parse_file (code_parser_service.py:90-129): the heap U with the units of
\* the file appended, the file unit first
parse_file(U, file_path, file_name, text, T) ==
    _extract_units(T, text,
        Append(U, CodeUnit("file", file_name, text, 1, FileEndLine(text),
                           None, 0, <<>>, [file_path |-> file_path])),
        NodeChildren(T, 1), Len(U) + 1, None)

(***************************************************************************)
(* Syntax trees of the model, as the C++ grammar lays them out.            *)
(***************************************************************************)
\* an empty translation unit
CstEmpty ==
    << Node("translation_unit", 0, "") >>

\* class Foo { void bar() { baz(); } }; void baz() {}
CstClassFoo ==
    << Node("translation_unit", 0, ""),
       Node("class_specifier", 1, ""),
       Node("class", 2, "class"),
       Node("type_identifier", 2, "Foo"),
       Node("field_declaration_list", 2, ""),
       Node("{", 5, "{"),
       Node("function_definition", 5, ""),
       Node("primitive_type", 7, "void"),
       Node("function_declarator", 7, ""),
       Node("field_identifier", 9, "bar"),
       Node("parameter_list", 9, ""),
       Node("(", 11, "("),
       Node(")", 11, ")"),
       Node("compound_statement", 7, ""),
       Node("{", 14, "{"),
       Node("expression_statement", 14, ""),
       Node("call_expression", 16, ""),
       Node("identifier", 17, "baz"),
       Node("argument_list", 17, ""),
       Node("(", 19, "("),
       Node(")", 19, ")"),
       Node(";", 16, ";"),
       Node("}", 14, "}"),
       Node("}", 5, "}"),
       Node(";", 1, ";"),
       Node("function_definition", 1, ""),
       Node("primitive_type", 26, "void"),
       Node("function_declarator", 26, ""),
       Node("identifier", 28, "baz"),
       Node("parameter_list", 28, ""),
       Node("(", 30, "("),
       Node(")", 30, ")"),
       Node("compound_statement", 26, ""),
       Node("{", 33, "{"),
       Node("}", 33, "}") >>

\* struct P { int x; }; int f(int);
CstStructProto ==
    << Node("translation_unit", 0, ""),
       Node("struct_specifier", 1, ""),
       Node("struct", 2, "struct"),
       Node("type_identifier", 2, "P"),
       Node("field_declaration_list", 2, ""),
       Node("{", 5, "{"),
       Node("field_declaration", 5, ""),
       Node("primitive_type", 7, "int"),
       Node("field_identifier", 7, "x"),
       Node(";", 7, ";"),
       Node("}", 5, "}"),
       Node(";", 1, ";"),
       Node("declaration", 1, ""),
       Node("primitive_type", 13, "int"),
       Node("function_declarator", 13, ""),
       Node("identifier", 15, "f"),
       Node("parameter_list", 15, ""),
       Node("(", 17, "("),
       Node("parameter_declaration", 17, ""),
       Node("primitive_type", 19, "int"),
       Node(")", 17, ")"),
       Node(";", 13, ";") >>

\* namespace n { void g() { o.h(); } } class K { K(); };
CstNamespace ==
    << Node("translation_unit", 0, ""),
       Node("namespace_definition", 1, ""),
       Node("namespace", 2, "namespace"),
       Node("namespace_identifier", 2, "n"),
       Node("declaration_list", 2, ""),
       Node("{", 5, "{"),
       Node("function_definition", 5, ""),
       Node("primitive_type", 7, "void"),
       Node("function_declarator", 7, ""),
       Node("identifier", 9, "g"),
       Node("parameter_list", 9, ""),
       Node("(", 11, "("),
       Node(")", 11, ")"),
       Node("compound_statement", 7, ""),
       Node("{", 14, "{"),
       Node("expression_statement", 14, ""),
       Node("call_expression", 16, ""),
       Node("field_expression", 17, ""),
       Node("identifier", 18, "o"),
       Node(".", 18, "."),
       Node("field_identifier", 18, "h"),
       Node("argument_list", 17, ""),
       Node("(", 22, "("),
       Node(")", 22, ")"),
       Node(";", 16, ";"),
       Node("}", 14, "}"),
       Node("}", 5, "}"),
       Node("class_specifier", 1, ""),
       Node("class", 28, "class"),
       Node("type_identifier", 28, "K"),
       Node("field_declaration_list", 28, ""),
       Node("{", 31, "{"),
       Node("declaration", 31, ""),
       Node("function_declarator", 33, ""),
       Node("identifier", 34, "K"),
       Node("parameter_list", 34, ""),
       Node("(", 36, "("),
       Node(")", 36, ")"),
       Node(";", 33, ";"),
       Node("}", 31, "}"),
       Node(";", 1, ";") >>

\* class A { void set(int v) { } };
CstMethodParam ==
    << Node("translation_unit", 0, ""),
       Node("class_specifier", 1, ""),
       Node("class", 2, "class"),
       Node("type_identifier", 2, "A"),
       Node("field_declaration_list", 2, ""),
       Node("{", 5, "{"),
       Node("function_definition", 5, ""),
       Node("primitive_type", 7, "void"),
       Node("function_declarator", 7, ""),
       Node("field_identifier", 9, "set"),
       Node("parameter_list", 9, ""),
       Node("(", 11, "("),
       Node("parameter_declaration", 11, ""),
       Node("primitive_type", 13, "int"),
       Node("identifier", 13, "v"),
       Node(")", 11, ")"),
       Node("compound_statement", 7, ""),
       Node("{", 17, "{"),
       Node("}", 17, "}"),
       Node("}", 5, "}"),
       Node(";", 1, ";") >>

\* int *f() { }
CstPointerReturn ==
    << Node("translation_unit", 0, ""),
       Node("function_definition", 1, ""),
       Node("primitive_type", 2, "int"),
       Node("pointer_declarator", 2, ""),
       Node("*", 4, "*"),
       Node("function_declarator", 4, ""),
       Node("identifier", 6, "f"),
       Node("parameter_list", 6, ""),
       Node("(", 8, "("),
       Node(")", 8, ")"),
       Node("compound_statement", 2, ""),
       Node("{", 11, "{"),
       Node("}", 11, "}") >>

\* struct S { int x; } s;
CstStructVariable ==
    << Node("translation_unit", 0, ""),
       Node("declaration", 1, ""),
       Node("struct_specifier", 2, ""),
       Node("struct", 3, "struct"),
       Node("type_identifier", 3, "S"),
       Node("field_declaration_list", 3, ""),
       Node("{", 6, "{"),
       Node("field_declaration", 6, ""),
       Node("primitive_type", 8, "int"),
       Node("field_identifier", 8, "x"),
       Node(";", 8, ";"),
       Node("}", 6, "}"),
       Node("identifier", 2, "s"),
       Node(";", 2, ";") >>

\* struct P { void m() { } };
CstStructMethod ==
    << Node("translation_unit", 0, ""),
       Node("struct_specifier", 1, ""),
       Node("struct", 2, "struct"),
       Node("type_identifier", 2, "P"),
       Node("field_declaration_list", 2, ""),
       Node("{", 5, "{"),
       Node("function_definition", 5, ""),
       Node("primitive_type", 7, "void"),
       Node("function_declarator", 7, ""),
       Node("field_identifier", 9, "m"),
       Node("parameter_list", 9, ""),
       Node("(", 11, "("),
       Node(")", 11, ")"),
       Node("compound_statement", 7, ""),
       Node("{", 14, "{"),
       Node("}", 14, "}"),
       Node("}", 5, "}"),
       Node(";", 1, ";") >>

\* void f() { struct L { }; }
CstLocalStruct ==
    << Node("translation_unit", 0, ""),
       Node("function_definition", 1, ""),
       Node("primitive_type", 2, "void"),
       Node("function_declarator", 2, ""),
       Node("identifier", 4, "f"),
       Node("parameter_list", 4, ""),
       Node("(", 6, "("),
       Node(")", 6, ")"),
       Node("compound_statement", 2, ""),
       Node("{", 9, "{"),
       Node("struct_specifier", 9, ""),
       Node("struct", 11, "struct"),
       Node("type_identifier", 11, "L"),
       Node("field_declaration_list", 11, ""),
       Node("{", 14, "{"),
       Node("}", 14, "}"),
       Node(";", 9, ";"),
       Node("}", 9, "}") >>

\* struct S; extern "C" { namespace n { void g() { } } }
CstLinkage ==
    << Node("translation_unit", 0, ""),
       Node("struct_specifier", 1, ""),
       Node("struct", 2, "struct"),
       Node("type_identifier", 2, "S"),
       Node(";", 1, ";"),
       Node("linkage_specification", 1, ""),
       Node("extern", 6, "extern"),
       Node("string_literal", 6, "\"C\""),
       Node("declaration_list", 6, ""),
       Node("{", 9, "{"),
       Node("namespace_definition", 9, ""),
       Node("namespace", 11, "namespace"),
       Node("namespace_identifier", 11, "n"),
       Node("declaration_list", 11, ""),
       Node("{", 14, "{"),
       Node("function_definition", 14, ""),
       Node("primitive_type", 16, "void"),
       Node("function_declarator", 16, ""),
       Node("identifier", 18, "g"),
       Node("parameter_list", 18, ""),
       Node("(", 20, "("),
       Node(")", 20, ")"),
       Node("compound_statement", 16, ""),
       Node("{", 23, "{"),
       Node("}", 23, "}"),
       Node("}", 14, "}"),
       Node("}", 9, "}") >>

CstShapes ==
    {CstEmpty, CstClassFoo, CstStructProto, CstNamespace, CstMethodParam,
     CstPointerReturn, CstStructMethod, CstLocalStruct, CstLinkage,
     CstStructVariable}

(***************************************************************************)
(* Specification SpecGraph: a client builds a forest of code units and     *)
(* calls flatten_units / build_call_graph on it.                           *)
(***************************************************************************)
Call(n, l) == [name |-> n, line |-> l]

\* the units a client may put below a file (type, name, call sites)
UnitKinds ==
    { [unit_type |-> "function", name |-> "foo",
       function_calls |-> <<Call("bar", 2)>>],
      [unit_type |-> "method", name |-> "bar",
       function_calls |-> <<Call("foo", 3), Call("baz", 4)>>],
      [unit_type |-> "function_declaration", name |-> "baz",
       function_calls |-> <<>>],
      [unit_type |-> "class", name |-> "foo",
       function_calls |-> <<>>],
      [unit_type |-> "struct", name |-> "bar",
       function_calls |-> <<Call("foo", 5)>>] }

Roots(U) == {i \in DOMAIN U : U[i].parent = 0}

\* all orderings of a finite set as sequences without repetition
Perms(S) ==
    {p \in [1..Cardinality(S) -> S] : \A i, j \in DOMAIN p : p[i] = p[j] => i = j}

\* the directory service is idle
DirIdle ==
    /\ fs_entries = <<>>
    /\ dir_call = EmptyDict
    /\ dir_files = <<>>
    /\ dir_i = 0
    /\ dir_log = <<>>
    /\ stats_errors = <<>>
    /\ dpc = "idle"

\* no ingest_code_files call
IngestIdle ==
    /\ in_files = <<>>
    /\ ing_i = 0
    /\ files_processed = 0
    /\ embeddings_created = 0
    /\ documents = <<>>
    /\ code_unit_records = <<>>
    /\ call_records = <<>>
    /\ all_code_units = <<>>
    /\ db_failed = FALSE
    /\ graph_calls = 0
    /\ ipc = "idle"

\* no map_async call
MapIdle ==
    /\ mp_items = <<>>
    /\ mp_batch_size = 0
    /\ mp_max_workers = 1
    /\ mp_i = 0
    /\ mp_finished = <<>>
    /\ mp_results = <<>>
    /\ mp_completed = 0
    /\ mp_pc = "idle"

\* no _extract_pdf_text call
PdfIdle ==
    /\ pdf_strategy = None
    /\ pdf_available = FALSE
    /\ pdf_file = <<>>
    /\ pdf_calls = <<>>
    /\ pdf_metadata = <<>>
    /\ pdf_text = ""
    /\ pdf_pc = "idle"

\* no data source
CancelIdle ==
    /\ ds_status = None
    /\ cancellation_flag = FALSE
    /\ ingestion_progress = None
    /\ src_result = <<>>
    /\ db_documents = 0
    /\ embed_i = 0
    /\ vector_chunks = 0
    /\ opc = "idle"

\* no chunk_text call
ChunkIdle ==
    /\ ck_text = <<>>
    /\ chunk_size = 0
    /\ chunk_overlap = 0
    /\ ck_start = 0
    /\ ck_chunks = <<>>
    /\ ck_pc = "idle"

\* no LazyService
LazyIdle ==
    /\ ls_instance = 0
    /\ ls_init_time = FALSE
    /\ ls_lock = 0
    /\ ls_pc = <<>>
    /\ ls_ret = <<>>
    /\ ls_built = 0
    /\ ls_runs = 0
    /\ ls_ops = 0

\* no LRUCache
LruIdle ==
    /\ lru_cache = <<>>
    /\ lru_max_size = 0
    /\ lru_default_ttl = 0
    /\ lru_stats = <<>>
    /\ lru_now = 0
    /\ lru_last = <<>>
    /\ lru_used = <<>>
    /\ lru_clock = 0

\* none of the other services is in use
ServicesIdle ==
    MapIdle /\ PdfIdle /\ CancelIdle /\ ChunkIdle /\ LazyIdle /\ LruIdle

\* no parse_file client
ParseIdle ==
    /\ content = <<>>
    /\ cst = <<>>
    /\ ppc = "idle"

InitGraph ==
    /\ IngestIdle
    /\ ServicesIdle
    /\ DirIdle
    /\ ParseIdle
    /\ units = <<>>
    /\ file_units = <<>>
    /\ name_to_unit = EmptyDict
    /\ call_graph = <<>>
    /\ flat_root = 0
    /\ flat = <<>>
    /\ gpc = "input"

\* the client creates a file unit
AddFile ==
    /\ gpc = "input"
    /\ Len(units) < MaxUnits
    /\ units' = Append(units,
          CodeUnit("file", IF Roots(units) = {} THEN "a.c" ELSE "b.c",
                   <<>>, 0, 0, None, 0, <<>>, EmptyDict))
    /\ UNCHANGED <<file_units, name_to_unit, call_graph, flat_root, flat, gpc>>
    /\ UNCHANGED <<dirVars, parseVars>>
    /\ UNCHANGED <<ingestVars, serviceVars>>

\* the client appends a unit to the children of an existing unit
AddUnit ==
    /\ gpc = "input"
    /\ Len(units) < MaxUnits
    /\ \E k \in UnitKinds, p \in DOMAIN units :
          units' = Append(units,
              CodeUnit(k.unit_type, k.name, <<>>, 0, 0, None, p,
                       k.function_calls, EmptyDict))
    /\ UNCHANGED <<file_units, name_to_unit, call_graph, flat_root, flat, gpc>>
    /\ UNCHANGED <<dirVars, parseVars>>
    /\ UNCHANGED <<ingestVars, serviceVars>>

\* flatten_units(file_unit)
Flatten ==
    /\ gpc = "input"
    /\ \E f \in Roots(units) :
          /\ flat_root' = f
          /\ flat' = flatten_units(units, f)
    /\ gpc' = "flattened"
    /\ UNCHANGED <<units, file_units, name_to_unit, call_graph>>
    /\ UNCHANGED <<dirVars, parseVars>>
    /\ UNCHANGED <<ingestVars, serviceVars>>

\* build_call_graph(file_units), the file units given in any order
BuildCallGraph ==
    /\ gpc = "input"
    /\ \E fs \in Perms(Roots(units)) :
          /\ file_units' = fs
          /\ name_to_unit' = BuildNameIndex(units, fs)
          /\ call_graph' = build_call_graph(units, fs)
    /\ gpc' = "graphed"
    /\ UNCHANGED <<units, flat_root, flat>>
    /\ UNCHANGED <<dirVars, parseVars>>
    /\ UNCHANGED <<ingestVars, serviceVars>>

\* a further flatten_units call, after other calls
FlattenAgain ==
    /\ gpc \in {"flattened", "graphed"}
    /\ \E f \in Roots(units) :
          /\ flat_root' = f
          /\ flat' = flatten_units(units, f)
    /\ gpc' = "flattened"
    /\ UNCHANGED <<units, file_units, name_to_unit, call_graph>>
    /\ UNCHANGED <<dirVars, parseVars>>
    /\ UNCHANGED <<ingestVars, serviceVars>>

\* a further build_call_graph call, after other calls
BuildCallGraphAgain ==
    /\ gpc \in {"flattened", "graphed"}
    /\ \E fs \in Perms(Roots(units)) :
          /\ file_units' = fs
          /\ name_to_unit' = BuildNameIndex(units, fs)
          /\ call_graph' = build_call_graph(units, fs)
    /\ gpc' = "graphed"
    /\ UNCHANGED <<units, flat_root, flat>>
    /\ UNCHANGED <<dirVars, parseVars>>
    /\ UNCHANGED <<ingestVars, serviceVars>>

NextGraph ==
    \/ AddFile
    \/ AddUnit
    \/ Flatten
    \/ BuildCallGraph
    \/ FlattenAgain
    \/ BuildCallGraphAgain

SpecGraph == InitGraph /\ [][NextGraph]_vars

(***************************************************************************)
(* Reference notions for the properties, defined from the parent relation  *)
(* alone (not from flatten_units).                                         *)
(***************************************************************************)
\* a is a proper ancestor of d
RECURSIVE IsAncestor(_, _, _)
IsAncestor(U, a, d) ==
    /\ U[d].parent # 0
    /\ (U[d].parent = a \/ IsAncestor(U, a, U[d].parent))

Subtree(U, r) == {r} \cup {d \in DOMAIN U : IsAncestor(U, r, d)}

\* the units of the batch given to build_call_graph
InBatch(U, files) == UNION {Subtree(U, files[i]) : i \in DOMAIN files}

\* the call sites of the callable units of the batch: <<unit, index>>
CallSites(U, files) ==
    {<<u, i>> \in InBatch(U, files) \X (1..3) :
        /\ U[u].unit_type \in {"function", "method"}
        /\ i <= Len(U[u].function_calls)}

EdgeKey(e) == <<e.caller_name, e.callee_name, e.call_line>>
SiteKey(U, cs) ==
    <<U[cs[1]].name, U[cs[1]].function_calls[cs[2]].name,
      U[cs[1]].function_calls[cs[2]].line>>

(***************************************************************************)
(* C2: build_call_graph returns exactly one edge per call site recorded on *)
(* a function or method unit of the batch, resolved or not: the number of  *)
(* edges is the number of such call sites, and the edges carry the call    *)
(* sites' caller, callee name and line, each as often as it occurs.        *)
(***************************************************************************)
C2_OneEdgePerCallSite ==
    gpc = "graphed" =>
        /\ Len(call_graph) = Cardinality(CallSites(units, file_units))
        /\ \A k \in {EdgeKey(call_graph[i]) : i \in DOMAIN call_graph}
                 \cup {SiteKey(units, cs) : cs \in CallSites(units, file_units)} :
              Cardinality({i \in DOMAIN call_graph : EdgeKey(call_graph[i]) = k})
              = Cardinality({cs \in CallSites(units, file_units) :
                                SiteKey(units, cs) = k})

\* a batch with a resolved and an unresolved edge and a struct that records
\* a call site of its own
C2_Witness ==
    /\ gpc = "graphed"
    /\ Len(call_graph) >= 3
    /\ \E i, j \in DOMAIN call_graph :
          call_graph[i].callee_resolved /\ ~call_graph[j].callee_resolved
    /\ \E u \in DOMAIN units :
          units[u].unit_type = "struct" /\ units[u].function_calls # <<>>

(***************************************************************************)
(* C3: build_call_graph yields a list of edges on every forest (whatever   *)
(* the order of the files), and an edge is marked resolved iff some        *)
(* function or method unit of the batch, in any file, carries the callee   *)
(* name.                                                                   *)
(***************************************************************************)
C3_ResolvedIffCallableNamed ==
    /\ gpc = "input" =>
          \A fs \in Perms(Roots(units)) :
              \A e \in Range(build_call_graph(units, fs)) :
                  e.callee_resolved \in BOOLEAN
    /\ gpc = "graphed" =>
          \A i \in DOMAIN call_graph :
              call_graph[i].callee_resolved <=>
                  \E u \in InBatch(units, file_units) :
                      /\ units[u].unit_type \in {"function", "method"}
                      /\ units[u].name = call_graph[i].callee_name

\* an edge left unresolved although a prototype carries its name, next to
\* an edge resolved by a unit that comes after every unit calling it
C3_Witness ==
    /\ gpc = "graphed"
    /\ \E i \in DOMAIN call_graph :
          /\ ~call_graph[i].callee_resolved
          /\ \E u \in InBatch(units, file_units) :
                /\ units[u].unit_type = "function_declaration"
                /\ units[u].name = call_graph[i].callee_name
    /\ \E i \in DOMAIN call_graph :
          /\ call_graph[i].callee_resolved
          /\ \A u, c \in InBatch(units, file_units) :
                (/\ units[u].unit_type \in {"function", "method"}
                 /\ units[u].name = call_graph[i].callee_name
                 /\ units[c].unit_type \in {"function", "method"}
                 /\ units[c].name = call_graph[i].caller_name)
                => c < u

(***************************************************************************)
(* C4: flatten_units returns the pre-order traversal: the file unit first, *)
(* every unit of the tree exactly once, each unit before its descendants,  *)
(* the subtrees of siblings whole (contiguous) and in child order.         *)
(***************************************************************************)
C4_FlattenPreOrder ==
    gpc = "flattened" =>
        /\ flat[1] = flat_root
        /\ Range(flat) = Subtree(units, flat_root)
        /\ Len(flat) = Cardinality(Subtree(units, flat_root))
        /\ \A i, j \in DOMAIN flat :
              IsAncestor(units, flat[i], flat[j]) => i < j
        /\ \A a, b \in Range(flat) :
              (units[a].parent = units[b].parent /\ a < b) =>
                  \A x \in Subtree(units, a), y \in Subtree(units, b) :
                      PosIn(flat, x) < PosIn(flat, y)
        /\ \A a \in Range(flat) : \A i, j, k \in DOMAIN flat :
              (i < j /\ j < k /\ flat[i] \in Subtree(units, a)
                  /\ flat[k] \in Subtree(units, a))
              => flat[j] \in Subtree(units, a)

\* a tree three levels deep whose first child got its own child after the
\* second child was appended
C4_Witness ==
    /\ gpc = "flattened"
    /\ Len(flat) = 4
    /\ \E i \in 1..3 : flat[i] > flat[i + 1]
    /\ \E d \in Range(flat) : units[d].parent # 0 /\ units[units[d].parent].parent # 0

(***************************************************************************)
(* Specification SpecParse: a text is written token by token, with         *)
(* newlines anywhere, and parse_file is called on it with the text's tree. *)
(***************************************************************************)
GraphIdle ==
    /\ units = <<>>
    /\ file_units = <<>>
    /\ name_to_unit = EmptyDict
    /\ call_graph = <<>>
    /\ flat_root = 0
    /\ flat = <<>>
    /\ gpc = "idle"

InitParse ==
    /\ IngestIdle
    /\ ServicesIdle
    /\ GraphIdle
    /\ DirIdle
    /\ content = <<>>
    /\ cst \in CstShapes
    /\ ppc = "typing"

\* the tokens written so far
Written(text) == Len(text) - Count(text, NL)

TypeToken ==
    /\ ppc = "typing"
    /\ Written(content) < Len(LeavesOf(cst, 1))
    /\ content' = Append(content, cst[LeavesOf(cst, 1)[Written(content) + 1]].tok)
    /\ UNCHANGED <<cst, ppc, graphVars, dirVars>>
    /\ UNCHANGED <<ingestVars, serviceVars>>

TypeNewline ==
    /\ ppc = "typing"
    /\ Count(content, NL) < MaxNewlines
    /\ content' = Append(content, NL)
    /\ UNCHANGED <<cst, ppc, graphVars, dirVars>>
    /\ UNCHANGED <<ingestVars, serviceVars>>

\* parse_file("x.cpp", content)
ParseFile ==
    /\ ppc = "typing"
    /\ Written(content) = Len(LeavesOf(cst, 1))
    /\ units' = parse_file(<<>>, "x.cpp", "x.cpp", content, cst)
    /\ file_units' = <<1>>
    /\ ppc' = "parsed"
    /\ UNCHANGED <<content, cst, name_to_unit, call_graph, flat_root, flat, gpc,
                   dirVars>>
    /\ UNCHANGED <<ingestVars, serviceVars>>

\* build_call_graph([file_unit]) on the tree parse_file returned
ParseBuildCallGraph ==
    /\ ppc = "parsed"
    /\ name_to_unit' = BuildNameIndex(units, file_units)
    /\ call_graph' = build_call_graph(units, file_units)
    /\ ppc' = "graphed"
    /\ UNCHANGED <<content, cst, units, file_units, flat_root, flat, gpc, dirVars>>
    /\ UNCHANGED <<ingestVars, serviceVars>>

NextParse == TypeToken \/ TypeNewline \/ ParseFile \/ ParseBuildCallGraph

SpecParse == InitParse /\ [][NextParse]_vars

(***************************************************************************)
(* C9: in every tree returned by parse_file each unit has                  *)
(* start_line <= end_line, and the line range of each child lies within    *)
(* the range of the unit that holds it in `children`.                      *)
(***************************************************************************)
C9_RangesNested ==
    ppc = "parsed" =>
        \A u \in DOMAIN units :
            /\ units[u].start_line <= units[u].end_line
            /\ units[u].parent # 0 =>
                  /\ units[units[u].parent].start_line <= units[u].start_line
                  /\ units[u].end_line <= units[units[u].parent].end_line

\* a method on the last line of its class, the class on more than one line,
\* and a unit that ends on the last line of the file
C9_Witness ==
    /\ ppc = "parsed"
    /\ \E m \in DOMAIN units :
          /\ units[m].unit_type = "method"
          /\ units[units[m].parent].start_line < units[units[m].parent].end_line
          /\ units[m].end_line = units[units[m].parent].end_line
    /\ \E u \in DOMAIN units :
          u # 1 /\ units[u].parent = 1 /\ units[u].end_line = units[1].end_line

(***************************************************************************)
(* C10: the root of the tree returned by parse_file is a unit of type file *)
(* whose code is the full text, whose start_line is 1 and whose end_line   *)
(* is the number of lines of the text, the lines being the pieces between  *)
(* newlines (content.split('\n')): the empty text has one, empty, line and *)
(* a text that ends with a newline has an empty last line.                 *)
(***************************************************************************)
\* the lines of a text: the pieces between its newlines
RECURSIVE SplitLines(_)
SplitLines(text) ==
    IF \A i \in DOMAIN text : text[i] # NL THEN <<text>>
    ELSE LET k == CHOOSE i \in DOMAIN text :
                      text[i] = NL /\ \A j \in 1..(i - 1) : text[j] # NL
         IN <<SubSeq(text, 1, k - 1)>> \o SplitLines(SubSeq(text, k + 1, Len(text)))

C10_FileUnitSpansSource ==
    ppc = "parsed" =>
        /\ units[1].unit_type = "file"
        /\ units[1].parent = 0
        /\ units[1].code = content
        /\ units[1].start_line = 1
        /\ units[1].end_line = Len(SplitLines(content))

\* a text with definitions that ends with a newline
C10_Witness ==
    /\ ppc = "parsed"
    /\ Len(units) > 1
    /\ Len(content) > 2
    /\ content[Len(content)] = NL
    /\ units[1].end_line = 3

(***************************************************************************)
(* Paths.  A path below the scanned directory is the list of its directory *)
(* names and its final component, the latter a list of characters so that  *)
(* the suffix is computed from it as pathlib does.                         *)
(***************************************************************************)
\* str.rfind('.') + 1: the place of the last dot, 0 if there is none
LastDot(name) ==
    IF \A i \in DOMAIN name : name[i] # "." THEN 0
    ELSE CHOOSE i \in DOMAIN name :
             name[i] = "." /\ \A j \in (i + 1)..Len(name) : name[j] # "."

\* Path(file_path).suffix: from the last dot on, unless the dot is the
\* first or the last character of the name
PathSuffix(name) ==
    IF 1 < LastDot(name) /\ LastDot(name) < Len(name)
    THEN SubSeq(name, LastDot(name), Len(name))
    ELSE <<>>

\* str.lower(), on the letters that occur in the names of the model
LowerChar(c) ==
    CASE c = "C" -> "c" [] c = "H" -> "h" [] c = "P" -> "p" [] c = "X" -> "x"
      [] OTHER -> c
Lower(str) == [i \in DOMAIN str |-> LowerChar(str[i])]

\* SUPPORTED_EXTENSIONS (code_parser_service.py:81)
SUPPORTED_EXTENSIONS ==
    { <<".", "c">>, <<".", "h">>, <<".", "c", "p", "p">>, <<".", "c", "c">>,
      <<".", "c", "x", "x">>, <<".", "h", "p", "p">>, <<".", "h", "x", "x">>,
      <<".", "h", "h">> }

\* is_supported_file (code_parser_service.py:86-88)
is_supported_file(name) == Lower(PathSuffix(name)) \in SUPPORTED_EXTENSIONS

(***************************************************************************)
(* The directory: what a glob of it yields, in the order it yields it.     *)
(* `raises` tells whether parse_file raises on the file (it cannot be      *)
(* opened, or the grammar cannot be loaded); text and tree are its content.*)
(***************************************************************************)
DirEntry(dirs, name, is_file, raises, text, tree) ==
    [dirs |-> dirs, name |-> name, is_file |-> is_file, raises |-> raises,
     text |-> text, tree |-> tree]

\* the tokens of a tree's leaves: the text of the tree on one line
TokensOf(T) == [i \in 1..Len(LeavesOf(T, 1)) |-> T[LeavesOf(T, 1)[i]].tok]

DirEntries ==
    { DirEntry(<<>>, <<"m", ".", "c">>, TRUE, FALSE,
               TokensOf(CstStructProto), CstStructProto),
      DirEntry(<<>>, <<"b", ".", "c">>, TRUE, TRUE, <<>>, CstEmpty),
      DirEntry(<<>>, <<"a", ".", "H">>, TRUE, FALSE, <<NL>>, CstEmpty),
      DirEntry(<<>>, <<"n", ".", "t", "x", "t">>, TRUE, FALSE, <<>>, CstEmpty),
      DirEntry(<<"s">>, <<"u", ".", "h", "p", "p">>, TRUE, FALSE, <<>>, CstEmpty),
      DirEntry(<<"s">>, <<"k", ".", "c", "p", "p">>, TRUE, TRUE, <<>>, CstEmpty),
      DirEntry(<<"s">>, <<"x", ".", "c">>, FALSE, FALSE, <<>>, CstEmpty),
      DirEntry(<<"s", "t">>, <<"d", ".", "c">>, TRUE, FALSE, <<NL, NL>>, CstEmpty) }

PathOf(e) == [dirs |-> e.dirs, name |-> e.name]

\* dir_path.rglob('*') if recursive else dir_path.glob('*')
\* (code_parser_service.py:472-475)
Glob(entries, recursive) ==
    IF recursive THEN entries
    ELSE SelectSeq(entries, LAMBDA e : e.dirs = <<>>)

(***************************************************************************)
(* Python's binding of a call to a signature without *args and **kwargs:   *)
(* npos positional arguments and the keyword arguments kws bind to the     *)
(* parameters params, of which those in defaults have a default.           *)
(***************************************************************************)
CallBinds(params, defaults, npos, kws) ==
    /\ npos <= Len(params)
    /\ kws \subseteq Range(params)
    /\ \A i \in 1..npos : params[i] \notin kws
    /\ \A i \in (npos + 1)..Len(params) :
          params[i] \in kws \/ params[i] \in defaults

\* def parse_directory(self, directory: str, recursive: bool = True)
\* (code_parser_service.py:454-458)
ParseDirectoryParams == <<"directory", "recursive">>
ParseDirectoryDefaults == {"recursive"}

\* the keywords of the call of code_ingestion_service.py:77-82
IngestCallKeywords == {"max_depth", "include_headers"}

(***************************************************************************)
(* Specification SpecDir: a directory is filled, then parse_directory or   *)
(* ingest_code_directory is called on it.                                  *)
(***************************************************************************)
InitDir ==
    /\ IngestIdle
    /\ ServicesIdle
    /\ GraphIdle
    /\ ParseIdle
    /\ fs_entries = <<>>
    /\ dir_call = EmptyDict
    /\ dir_files = <<>>
    /\ dir_i = 0
    /\ dir_log = <<>>
    /\ stats_errors = <<>>
    /\ dpc = "fs"

\* one more path in the directory
AddEntry ==
    /\ dpc = "fs"
    /\ Len(fs_entries) < MaxEntries
    /\ \E e \in DirEntries :
          /\ \A i \in DOMAIN fs_entries : PathOf(fs_entries[i]) # PathOf(e)
          /\ fs_entries' = Append(fs_entries, e)
    /\ UNCHANGED <<dir_call, dir_files, dir_i, dir_log, stats_errors, dpc,
                   graphVars, parseVars>>
    /\ UNCHANGED <<ingestVars, serviceVars>>

\* parse_directory(directory, recursive): lines 469-475
CallParseDirectory ==
    /\ dpc = "fs"
    /\ \E recursive \in BOOLEAN :
          /\ dir_call' = [fn |-> "parse_directory", recursive |-> recursive]
          /\ dir_files' = Glob(fs_entries, recursive)
    /\ dir_i' = 1
    /\ dpc' = "loop"
    /\ UNCHANGED <<fs_entries, dir_log, stats_errors, graphVars, parseVars>>
    /\ UNCHANGED <<ingestVars, serviceVars>>

\* one parse_file under try/except with the error propagated instead
ParseDirStepNoCatch ==
    /\ dpc = "loop"
    /\ dir_i <= Len(dir_files)
    /\ LET e == dir_files[dir_i] IN
          IF e.is_file /\ is_supported_file(e.name)
          THEN IF e.raises
               THEN /\ dpc' = "raised"
                    /\ UNCHANGED <<units, file_units, dir_log>>
               ELSE /\ units' = parse_file(units, PathOf(e), e.name, e.text, e.tree)
                    /\ file_units' = Append(file_units, Len(units) + 1)
                    /\ UNCHANGED <<dir_log, dpc>>
          ELSE UNCHANGED <<units, file_units, dir_log, dpc>>
    /\ dir_i' = dir_i + 1
    /\ UNCHANGED <<fs_entries, dir_call, dir_files, stats_errors, name_to_unit,
                   call_graph, flat_root, flat, gpc, parseVars>>
    /\ UNCHANGED <<ingestVars, serviceVars>>

\* one iteration of `for file_path in files:` (lines 477-484)
ParseDirStep ==
    /\ dpc = "loop"
    /\ dir_i <= Len(dir_files)
    /\ LET e == dir_files[dir_i] IN
          IF e.is_file /\ is_supported_file(e.name)
          THEN IF e.raises
               THEN /\ dir_log' = Append(dir_log, PathOf(e))
                    /\ UNCHANGED <<units, file_units>>
               ELSE /\ units' = parse_file(units, PathOf(e), e.name, e.text, e.tree)
                    /\ file_units' = Append(file_units, Len(units) + 1)
                    /\ UNCHANGED dir_log
          ELSE UNCHANGED <<units, file_units, dir_log>>
    /\ dir_i' = dir_i + 1
    /\ UNCHANGED <<fs_entries, dir_call, dir_files, stats_errors, dpc, name_to_unit,
                   call_graph, flat_root, flat, gpc, parseVars>>
    /\ UNCHANGED <<ingestVars, serviceVars>>

\* return file_units (line 486); for ingest_code_directory the list comes
\* back to line 83
ParseDirReturn ==
    /\ dpc = "loop"
    /\ dir_i > Len(dir_files)
    /\ dpc' = IF dir_call.fn = "parse_directory" THEN "returned" ELSE "ingest_parsed"
    /\ UNCHANGED <<fs_entries, dir_call, dir_files, dir_i, dir_log, stats_errors,
                   graphVars, parseVars>>
    /\ UNCHANGED <<ingestVars, serviceVars>>

\* ingest_code_directory(directory, ..., recursive, max_depth, include_headers)
\* up to the return of parse_directory (code_ingestion_service.py:64-82) and,
\* when the call raises, the handler of lines 132-136
IngestCodeDirectory ==
    /\ dpc = "fs"
    /\ \E recursive \in BOOLEAN, max_depth \in {<<>>, <<0>>, <<1>>},
          include_headers \in BOOLEAN :
          /\ dir_call' = [fn |-> "ingest_code_directory", recursive |-> recursive,
                          max_depth |-> max_depth,
                          include_headers |-> include_headers]
          /\ IF CallBinds(ParseDirectoryParams, ParseDirectoryDefaults, 2,
                          IngestCallKeywords)
             THEN /\ dir_files' = Glob(fs_entries, recursive)
                  /\ dir_i' = 1
                  /\ dpc' = "loop"
                  /\ UNCHANGED stats_errors
             ELSE \* TypeError: unexpected keyword argument
                  /\ stats_errors' = Append(stats_errors, "TypeError")
                  /\ dpc' = "raised"
                  /\ UNCHANGED <<dir_files, dir_i>>
    /\ UNCHANGED <<fs_entries, dir_log, graphVars, parseVars>>
    /\ UNCHANGED <<ingestVars, serviceVars>>

NextDir ==
    \/ AddEntry
    \/ CallParseDirectory
    \/ ParseDirStep
    \/ ParseDirReturn
    \/ IngestCodeDirectory

SpecDir == InitDir /\ [][NextDir]_vars

\* the paths of the file units of a list
PathsOf(U, files) == [i \in DOMAIN files |-> U[files[i]].metadata.file_path]

IsHeader(name) ==
    Lower(PathSuffix(name)) \in
        {<<".", "h">>, <<".", "h", "p", "p">>, <<".", "h", "x", "x">>, <<".", "h", "h">>}

(***************************************************************************)
(* C5: parse_directory never aborts the scan because a file fails: the     *)
(* list it returns holds the file unit of every supported file of the scan *)
(* on which parse_file does not raise, in discovery order, whatever files  *)
(* raise before or after it; the files that raise are logged.              *)
(***************************************************************************)
C5_ScanSurvivesFailures ==
    /\ dpc # "raised" \/ dir_call.fn # "parse_directory"
    /\ dpc = "returned" =>
          /\ PathsOf(units, file_units)
             = LET good == SelectSeq(Glob(fs_entries, dir_call.recursive),
                               LAMBDA e : e.is_file /\ is_supported_file(e.name)
                                          /\ ~e.raises)
               IN [i \in DOMAIN good |-> PathOf(good[i])]
          /\ \A i \in DOMAIN file_units : units[file_units[i]].unit_type = "file"
          /\ dir_log
             = LET bad == SelectSeq(Glob(fs_entries, dir_call.recursive),
                              LAMBDA e : e.is_file /\ is_supported_file(e.name)
                                         /\ e.raises)
               IN [i \in DOMAIN bad |-> PathOf(bad[i])]

\* a scan in which a failing file lies between two files that are returned
C5_Witness ==
    /\ dpc = "returned"
    /\ Len(file_units) = 2
    /\ Len(dir_files) = 3
    /\ dir_files[2].raises
    /\ dir_log = <<PathOf(dir_files[2])>>

(***************************************************************************)
(* C7 (as claimed): a directory parse requested with include_headers=false *)
(* on a directory with headers and other sources completes, returns no     *)
(* .h/.hpp/.hxx/.hh file and reports none in the errors, and returns the   *)
(* other supported files of the scan.                                      *)
(***************************************************************************)
C7_HeadersExcluded ==
    (/\ dpc \in {"returned", "ingest_parsed", "raised"}
     /\ dir_call.fn = "ingest_code_directory"
     /\ dir_call.include_headers = FALSE
     /\ \E i, j \in DOMAIN fs_entries :
           /\ fs_entries[i].is_file /\ IsHeader(fs_entries[i].name)
           /\ fs_entries[j].is_file /\ is_supported_file(fs_entries[j].name)
           /\ ~IsHeader(fs_entries[j].name))
    => /\ dpc # "raised"
       /\ stats_errors = <<>>
       /\ \A i \in DOMAIN file_units :
             ~IsHeader(units[file_units[i]].metadata.file_path.name)
       /\ \A i \in DOMAIN fs_entries :
             LET e == fs_entries[i] IN
             (/\ e.is_file /\ is_supported_file(e.name) /\ ~IsHeader(e.name)
              /\ ~e.raises /\ (dir_call.recursive \/ e.dirs = <<>>)
              /\ (dir_call.max_depth = <<>> \/ Len(e.dirs) <= dir_call.max_depth[1]))
             => \E k \in DOMAIN file_units :
                    units[file_units[k]].metadata.file_path = PathOf(e)

(***************************************************************************)
(* C8 (as claimed): a directory parse requested with max_depth=0 on a      *)
(* directory with files in the root and in subfolders completes and        *)
(* returns exactly the supported files located directly in the root.       *)
(***************************************************************************)
C8_DepthZeroRootOnly ==
    (/\ dpc \in {"returned", "ingest_parsed", "raised"}
     /\ dir_call.fn = "ingest_code_directory"
     /\ dir_call.max_depth = <<0>>
     /\ \E i, j \in DOMAIN fs_entries :
           /\ fs_entries[i].is_file /\ is_supported_file(fs_entries[i].name)
           /\ fs_entries[i].dirs = <<>>
           /\ fs_entries[j].is_file /\ is_supported_file(fs_entries[j].name)
           /\ fs_entries[j].dirs # <<>>)
    => /\ dpc # "raised"
       /\ {units[file_units[k]].metadata.file_path : k \in DOMAIN file_units}
          = {PathOf(fs_entries[i]) : i \in
                {j \in DOMAIN fs_entries :
                    /\ fs_entries[j].is_file
                    /\ is_supported_file(fs_entries[j].name)
                    /\ ~fs_entries[j].raises
                    /\ (dir_call.include_headers \/ ~IsHeader(fs_entries[j].name))
                    /\ fs_entries[j].dirs = <<>>}}

(***************************************************************************)
(* Specification SpecIngest: ingest_code_files                             *)
(* (code_ingestion_service.py:455-535) with _process_file_units (140-247), *)
(* _create_code_unit_record (249-277) and _store_call_graph (387-411).     *)
(*                                                                         *)
(* The database session is the lists of the rows flushed or added to it;   *)
(* an autoincremented id is the position of the row in its table.  A flush *)
(* may raise; the code never rolls the session back inside the loop, so    *)
(* once a flush has raised every later flush and the commit raise too.     *)
(* A summary is the unit it was generated from together with the summaries *)
(* that were given to the generator.                                       *)
(***************************************************************************)
MaxFiles == 3

\* void baz() { bar(); } void bar() {}
CstBazBar ==
    << Node("translation_unit", 0, ""),
       Node("function_definition", 1, ""),
       Node("primitive_type", 2, "void"),
       Node("function_declarator", 2, ""),
       Node("identifier", 4, "baz"),
       Node("parameter_list", 4, ""),
       Node("(", 6, "("),
       Node(")", 6, ")"),
       Node("compound_statement", 2, ""),
       Node("{", 9, "{"),
       Node("expression_statement", 9, ""),
       Node("call_expression", 11, ""),
       Node("identifier", 12, "bar"),
       Node("argument_list", 12, ""),
       Node("(", 14, "("),
       Node(")", 14, ")"),
       Node(";", 11, ";"),
       Node("}", 9, "}"),
       Node("function_definition", 1, ""),
       Node("primitive_type", 19, "void"),
       Node("function_declarator", 19, ""),
       Node("identifier", 21, "bar"),
       Node("parameter_list", 21, ""),
       Node("(", 23, "("),
       Node(")", 23, ")"),
       Node("compound_statement", 19, ""),
       Node("{", 26, "{"),
       Node("}", 26, "}") >>

\* class A { void f() { } void f(int) { } };
CstOverloads ==
    << Node("translation_unit", 0, ""),
       Node("class_specifier", 1, ""),
       Node("class", 2, "class"),
       Node("type_identifier", 2, "A"),
       Node("field_declaration_list", 2, ""),
       Node("{", 5, "{"),
       Node("function_definition", 5, ""),
       Node("primitive_type", 7, "void"),
       Node("function_declarator", 7, ""),
       Node("field_identifier", 9, "f"),
       Node("parameter_list", 9, ""),
       Node("(", 11, "("),
       Node(")", 11, ")"),
       Node("compound_statement", 7, ""),
       Node("{", 14, "{"),
       Node("}", 14, "}"),
       Node("function_definition", 5, ""),
       Node("primitive_type", 17, "void"),
       Node("function_declarator", 17, ""),
       Node("field_identifier", 19, "f"),
       Node("parameter_list", 19, ""),
       Node("(", 21, "("),
       Node("parameter_declaration", 21, ""),
       Node("primitive_type", 23, "int"),
       Node(")", 21, ")"),
       Node("compound_statement", 17, ""),
       Node("{", 26, "{"),
       Node("}", 26, "}"),
       Node("}", 5, "}"),
       Node(";", 1, ";") >>

\* one element of `files`: {"path": ..., "content": ...}, with the tree the
\* grammar yields for the content, whether parse_file raises on it and
\* whether flushing its rows raises
FileInfo(name, text, tree, raises, flush_raises) ==
    [path |-> [dirs |-> <<>>, name |-> name], content |-> text, tree |-> tree,
     raises |-> raises, flush_raises |-> flush_raises]

\* the files a batch is made of
FileInfos ==
    { FileInfo(<<"a", ".", "c", "p", "p">>, TokensOf(CstClassFoo), CstClassFoo,
               FALSE, FALSE),
      FileInfo(<<"b", ".", "c">>, TokensOf(CstBazBar), CstBazBar, FALSE, FALSE),
      FileInfo(<<"c", ".", "c">>, TokensOf(CstBazBar), CstBazBar, FALSE, TRUE),
      FileInfo(<<"d", ".", "c", "c">>, TokensOf(CstStructProto), CstStructProto,
               FALSE, FALSE),
      FileInfo(<<"o", ".", "c", "p", "p">>, TokensOf(CstOverloads), CstOverloads,
               FALSE, FALSE),
      FileInfo(<<"e", ".", "c">>, <<>>, CstEmpty, TRUE, FALSE),
      FileInfo(<<"n", ".", "p", "y">>, <<>>, CstEmpty, FALSE, FALSE) }

\* _generate_function_summary, _generate_struct_summary,
\* _generate_class_summary, _generate_file_summary (lines 279-385)
Summary(U, u, parts) == [of |-> u, parts |-> parts]

\* the unit types handled as functions (lines 157, 178, 202)
IsFunctionLike(u) == u.unit_type \in {"function", "method", "function_declaration"}

\* _create_code_unit_record (lines 249-277) followed by processed_units.append
StoreUnit(U, acc, u, document_id, parent_id, summary) ==
    LET id == Len(acc.rows) + 1 IN
    [acc EXCEPT
       !.rows = Append(@, [id |-> id, document_id |-> document_id,
                           unit_type |-> U[u].unit_type, name |-> U[u].name,
                           code |-> U[u].code, summary |-> summary,
                           start_line |-> U[u].start_line,
                           end_line |-> U[u].end_line, parent_id |-> parent_id]),
       !.processed = Append(@, [db_id |-> id, unit |-> u, summary |-> summary,
                                document_id |-> document_id])]

\* lines 177-182: dict[method.name] = summary for the methods of a class
RECURSIVE MethodSummaries(_, _, _)
MethodSummaries(U, ms, d) ==
    IF ms = <<>> THEN d
    ELSE MethodSummaries(U, Tail(ms),
                         DictSet(d, U[Head(ms)].name, Summary(U, Head(ms), EmptyDict)))

\* method_summaries.get(method.name, "")
SummaryGet(d, k) == IF k \in DOMAIN d THEN d[k] ELSE ""

\* lines 200-214: the method records of a class
RECURSIVE StoreMethods(_, _, _, _, _, _)
StoreMethods(U, acc, ms, document_id, class_id, method_summaries) ==
    IF ms = <<>> THEN acc
    ELSE StoreMethods(U,
             StoreUnit(U, acc, Head(ms), document_id, class_id,
                       SummaryGet(method_summaries, U[Head(ms)].name)),
             Tail(ms), document_id, class_id, method_summaries)

\* lines 156-230: `for child in file_unit.children:`
RECURSIVE ProcessChildren(_, _, _, _)
ProcessChildren(U, acc, ch, document_id) ==
    IF ch = <<>> THEN acc
    ELSE LET c == Head(ch)
             ms == SelectSeq(Children(U, c), LAMBDA m : IsFunctionLike(U[m]))
             method_summaries == MethodSummaries(U, ms, EmptyDict)
             next ==
               IF IsFunctionLike(U[c])
               THEN StoreUnit(U, [acc EXCEPT !.function_summaries =
                                     DictSet(@, U[c].name, Summary(U, c, EmptyDict))],
                              c, document_id, NoId, Summary(U, c, EmptyDict))
               ELSE IF U[c].unit_type = "class"
               THEN StoreMethods(U,
                        StoreUnit(U, [acc EXCEPT !.function_summaries =
                                         MethodSummaries(U, ms, @)],
                                  c, document_id, NoId,
                                  Summary(U, c, method_summaries)),
                        ms, document_id, Len(acc.rows) + 1, method_summaries)
               ELSE IF U[c].unit_type = "struct"
               THEN StoreUnit(U, acc, c, document_id, NoId, Summary(U, c, EmptyDict))
               ELSE acc
         IN ProcessChildren(U, next, Tail(ch), document_id)

\* _process_file_units (lines 140-247): the rows of the table afterwards and
\* the processed units returned
_process_file_units(U, rows, file_unit, document_id) ==
    LET acc == ProcessChildren(U, [rows |-> rows, processed |-> <<>>,
                                   function_summaries |-> EmptyDict],
                               Children(U, file_unit), document_id)
    IN StoreUnit(U, acc, file_unit, document_id, NoId,
                 Summary(U, file_unit, acc.function_summaries))

\* lines 395-398: name_to_id[pu["unit"].name] = pu["db_id"]
RECURSIVE NameToId(_, _, _)
NameToId(U, processed, d) ==
    IF processed = <<>> THEN d
    ELSE NameToId(U, Tail(processed),
                  IF IsCallable(U[Head(processed).unit])
                  THEN DictSet(d, U[Head(processed).unit].name, Head(processed).db_id)
                  ELSE d)

\* lines 400-411: the CodeCallGraph row of an edge
CallRecord(name_to_id, call) ==
    [caller_id   |-> DictGet(name_to_id, call.caller_name),
     callee_name |-> call.callee_name,
     callee_id   |-> DictGet(name_to_id, call.callee_name),
     call_line   |-> call.call_line]

\* _store_call_graph (lines 387-411): the rows added, in order
_store_call_graph(U, graph, processed_units) ==
    LET name_to_id == NameToId(U, processed_units, EmptyDict) IN
    SelectSeq([i \in DOMAIN graph |-> CallRecord(name_to_id, graph[i])],
              LAMBDA r : r.caller_id # NoId)

InitIngest ==
    /\ GraphIdle
    /\ ServicesIdle
    /\ ParseIdle
    /\ fs_entries = <<>>
    /\ dir_call = EmptyDict
    /\ dir_files = <<>>
    /\ dir_i = 0
    /\ dir_log = <<>>
    /\ stats_errors = <<>>
    /\ dpc = "idle"
    /\ in_files = <<>>
    /\ ing_i = 0
    /\ files_processed = 0
    /\ embeddings_created = 0
    /\ documents = <<>>
    /\ code_unit_records = <<>>
    /\ call_records = <<>>
    /\ all_code_units = <<>>
    /\ db_failed = FALSE
    /\ graph_calls = 0
    /\ ipc = "input"

ingestFrame == <<fs_entries, dir_call, dir_files, dir_i, dir_log, dpc, flat_root,
                 flat, gpc, parseVars, serviceVars>>

\* one more file in the batch (paths are distinct)
AddInputFile ==
    /\ ipc = "input"
    /\ Len(in_files) < MaxFiles
    /\ \E f \in FileInfos :
          /\ \A i \in DOMAIN in_files : in_files[i].path # f.path
          /\ in_files' = Append(in_files, f)
    /\ UNCHANGED <<ing_i, files_processed, embeddings_created, documents,
                   code_unit_records, call_records, all_code_units, db_failed, ipc,
                   units, file_units, name_to_unit, call_graph, stats_errors,
                   graph_calls, ingestFrame>>

\* ingest_code_files(files, ...): lines 472-486
CallIngestCodeFiles ==
    /\ ipc = "input"
    /\ ing_i' = 1
    /\ ipc' = "loop"
    /\ UNCHANGED <<in_files, files_processed, embeddings_created, documents,
                   code_unit_records, call_records, all_code_units, db_failed,
                   units, file_units, name_to_unit, call_graph, stats_errors,
                   graph_calls, ingestFrame>>

\* one iteration of `for file_info in files:` (lines 487-523)
IngestFileStep ==
    /\ ipc = "loop"
    /\ ing_i <= Len(in_files)
    /\ LET f == in_files[ing_i]
           file_unit == Len(units) + 1
           document_id == Len(documents) + 1
       IN IF ~is_supported_file(f.path.name)
          THEN \* line 491-492: continue
               UNCHANGED <<units, file_units, files_processed, documents,
                           code_unit_records, all_code_units, db_failed,
                           stats_errors>>
          ELSE IF f.raises
          THEN \* parse_file raises (line 496): lines 520-523
               /\ stats_errors' = Append(stats_errors,
                                         [file_path |-> f.path, error |-> "parse"])
               /\ UNCHANGED <<units, file_units, files_processed, documents,
                              code_unit_records, all_code_units, db_failed>>
          ELSE /\ units' = parse_file(units, f.path, f.path.name, f.content, f.tree)
               /\ file_units' = Append(file_units, file_unit)
               /\ files_processed' = files_processed + 1
               /\ IF db_failed \/ f.flush_raises
                  THEN \* db.flush() raises (line 512): lines 520-523
                       /\ db_failed' = TRUE
                       /\ stats_errors' = Append(stats_errors,
                                             [file_path |-> f.path, error |-> "flush"])
                       /\ UNCHANGED <<documents, code_unit_records, all_code_units>>
                  ELSE LET done == _process_file_units(units', code_unit_records,
                                                       file_unit, document_id)
                       IN /\ documents' = Append(documents,
                                              [id |-> document_id, title |-> f.path.name,
                                               file_path |-> f.path])
                          /\ code_unit_records' = done.rows
                          /\ all_code_units' = all_code_units \o done.processed
                          /\ UNCHANGED <<db_failed, stats_errors>>
    /\ ing_i' = ing_i + 1
    /\ UNCHANGED <<in_files, embeddings_created, call_records, ipc, name_to_unit,
                   call_graph, graph_calls, ingestFrame>>

\* a call graph step that may also run before the loop has ended
IngestBuildCallGraphEarly ==
    /\ ipc = "loop"
    /\ graph_calls = 0 \/ ing_i > Len(in_files)
    /\ IF file_units # <<>>
       THEN /\ name_to_unit' = BuildNameIndex(units, file_units)
            /\ call_graph' = build_call_graph(units, file_units)
            /\ call_records' = _store_call_graph(units, call_graph', all_code_units)
            /\ graph_calls' = graph_calls + 1
       ELSE UNCHANGED <<name_to_unit, call_graph, call_records, graph_calls>>
    /\ ipc' = IF ing_i > Len(in_files) THEN "embed" ELSE "loop"
    /\ UNCHANGED <<in_files, ing_i, files_processed, embeddings_created, documents,
                   code_unit_records, all_code_units, db_failed, units, file_units,
                   stats_errors, ingestFrame>>

\* lines 525-527: build_call_graph and _store_call_graph after the loop
IngestBuildCallGraph ==
    /\ ipc = "loop"
    /\ ing_i > Len(in_files)
    /\ IF file_units # <<>>
       THEN /\ name_to_unit' = BuildNameIndex(units, file_units)
            /\ call_graph' = build_call_graph(units, file_units)
            /\ call_records' = _store_call_graph(units, call_graph', all_code_units)
            /\ graph_calls' = graph_calls + 1
       ELSE UNCHANGED <<name_to_unit, call_graph, call_records, graph_calls>>
    /\ ipc' = "embed"
    /\ UNCHANGED <<in_files, ing_i, files_processed, embeddings_created, documents,
                   code_unit_records, all_code_units, db_failed, units, file_units,
                   stats_errors, ingestFrame>>

\* lines 529-532: _create_embeddings for the processed units
IngestCreateEmbeddings ==
    /\ ipc = "embed"
    /\ embeddings_created' = IF all_code_units # <<>> THEN Len(all_code_units)
                             ELSE embeddings_created
    /\ ipc' = "commit"
    /\ UNCHANGED <<in_files, ing_i, files_processed, documents, code_unit_records,
                   call_records, all_code_units, db_failed, units, file_units,
                   name_to_unit, call_graph, stats_errors, graph_calls, ingestFrame>>

\* lines 534-535: db.commit() and return stats
IngestCommit ==
    /\ ipc = "commit"
    /\ ipc' = IF db_failed THEN "raised" ELSE "returned"
    /\ UNCHANGED <<in_files, ing_i, files_processed, embeddings_created, documents,
                   code_unit_records, call_records, all_code_units, db_failed,
                   units, file_units, name_to_unit, call_graph, stats_errors,
                   graph_calls, ingestFrame>>

NextIngest ==
    \/ AddInputFile
    \/ CallIngestCodeFiles
    \/ IngestFileStep
    \/ IngestBuildCallGraph
    \/ IngestCreateEmbeddings
    \/ IngestCommit

SpecIngest == InitIngest /\ [][NextIngest]_vars

\* the call graph of the batch has been built and stored
GraphStored == ipc \in {"embed", "commit", "returned", "raised"}

\* the first function/method unit named n in a visiting order (NoId if none)
FirstCallableNamed(U, visit, n) ==
    LET hits == SelectSeq(visit, LAMBDA u : IsCallable(U[u]) /\ U[u].name = n)
    IN IF hits = <<>> THEN NoId ELSE Head(hits)

\* the unit persisted as the CodeUnit row with the given id
UnitOfRecord(id) == (CHOOSE pu \in Range(all_code_units) : pu.db_id = id).unit

(***************************************************************************)
(* C1: when function/method units of a batch share a name, a call to that  *)
(* name is resolved to the first such unit in input order (file-list       *)
(* order, then pre-order inside a file): after a batch in which no file    *)
(* failed, the name index of build_call_graph maps every name to the first *)
(* function/method unit of that name, and the callee_id of every call      *)
(* record with a resolved callee is the row of that first unit.            *)
(***************************************************************************)
C1_FirstDefinitionWins ==
    (GraphStored /\ stats_errors = <<>>) =>
        LET visit == VisitOrder(units, file_units) IN
        /\ \A n \in DOMAIN name_to_unit :
              name_to_unit[n] = FirstCallableNamed(units, visit, n)
        /\ \A i \in DOMAIN call_records :
              call_records[i].callee_id # NoId =>
                  UnitOfRecord(call_records[i].callee_id) =
                      FirstCallableNamed(units, visit, call_records[i].callee_name)

\* the entries of stats["errors"] and the trees of file_units that belong to
\* an input path
ErrorsOf(path) == {k \in DOMAIN stats_errors : stats_errors[k].file_path = path}
TreesOf(path) ==
    {k \in DOMAIN file_units : units[file_units[k]].metadata.file_path = path}

(***************************************************************************)
(* C6: for a batch in which some files fail, there is one code-unit tree   *)
(* per file that succeeded and exactly one errors entry per file that      *)
(* failed (a supported file has either one tree and no errors entry, or    *)
(* one errors entry and no tree), and the call graph is built only from    *)
(* the files that succeeded: no edge has a caller from a file that has an  *)
(* errors entry.                                                           *)
(***************************************************************************)
C6_FailedFilesStayOutOfGraph ==
    (GraphStored /\ stats_errors # <<>>) =>
        /\ \A i \in DOMAIN in_files :
              is_supported_file(in_files[i].path.name) =>
                  \/ /\ Cardinality(TreesOf(in_files[i].path)) = 1
                     /\ ErrorsOf(in_files[i].path) = {}
                  \/ /\ TreesOf(in_files[i].path) = {}
                     /\ Cardinality(ErrorsOf(in_files[i].path)) = 1
        /\ \A e \in Range(call_graph) :
              ~ \E i \in DOMAIN in_files :
                    /\ ErrorsOf(in_files[i].path) # {}
                    /\ in_files[i].path.name = e.caller_file

(***************************************************************************)
(* C11: the file `class Foo { void bar() { baz(); } }; void baz() {}`,     *)
(* however it is laid out on lines, yields a class unit Foo below the file *)
(* with the method bar as its only child, a function unit baz that is a    *)
(* direct child of the file, one call site named baz on bar, and           *)
(* build_call_graph returns exactly one edge, bar -> baz, resolved.        *)
(***************************************************************************)
C11_ClassFooScenario ==
    (ppc = "graphed" /\ cst = CstClassFoo) =>
        /\ Children(units, 1) = <<2, 4>>
        /\ Len(units) = 4
        /\ units[2].unit_type = "class" /\ units[2].name = <<"Foo">>
        /\ Children(units, 2) = <<3>>
        /\ units[3].unit_type = "method" /\ units[3].name = <<"bar">>
        /\ units[3].parent_name = <<"Foo">>
        /\ units[4].unit_type = "function" /\ units[4].name = <<"baz">>
        /\ Len(units[3].function_calls) = 1
        /\ units[3].function_calls[1].name = <<"baz">>
        /\ units[3].function_calls[1].line \in
               units[3].start_line .. units[3].end_line
        /\ units[4].function_calls = <<>>
        /\ call_graph = << [caller_name |-> <<"bar">>, caller_file |-> "x.cpp",
                            callee_name |-> <<"baz">>, callee_resolved |-> TRUE,
                            call_line |-> units[3].function_calls[1].line] >>

\* the scenario with the call on the second line and baz on the third
C11_Witness ==
    /\ ppc = "graphed"
    /\ cst = CstClassFoo
    /\ Len(call_graph) = 1
    /\ call_graph[1].call_line = 2
    /\ units[4].start_line = 3

\* node n is a function definition that is a member of a class body
IsMemberDefinition(T, n) ==
    /\ T[n].type = "function_definition"
    /\ T[n].parent # 0
    /\ T[T[n].parent].type = "field_declaration_list"
    /\ T[T[n].parent].parent # 0
    /\ T[T[T[n].parent].parent].type = "class_specifier"

\* the class_specifier node of a member definition
ClassNodeOf(T, n) == T[T[n].parent].parent

\* unit u was made from node n: it carries the node's text and first line
UnitFromNode(U, u, T, text, n) ==
    /\ U[u].code = _get_node_text(T, text, n)
    /\ U[u].start_line = StartLine(T, text, n)

(***************************************************************************)
(* C12: in every tree returned by parse_file a unit made from a function   *)
(* definition has type method if and only if that definition is a member   *)
(* of a class body; every method is a child of the unit of that class,     *)
(* its parent_name is the class name, and it is never a direct child of    *)
(* the file unit.                                                          *)
(***************************************************************************)
C12_MethodIffClassMember ==
    ppc = "parsed" =>
        \A u \in DOMAIN units :
            /\ units[u].unit_type \in {"function", "method"} =>
                  (units[u].unit_type = "method" <=>
                      \E n \in DOMAIN cst :
                          IsMemberDefinition(cst, n)
                          /\ UnitFromNode(units, u, cst, content, n))
            /\ units[u].unit_type = "method" =>
                  \E n \in DOMAIN cst :
                      /\ IsMemberDefinition(cst, n)
                      /\ UnitFromNode(units, u, cst, content, n)
                      /\ units[u].parent \notin {0, 1}
                      /\ units[units[u].parent].unit_type = "class"
                      /\ UnitFromNode(units, units[u].parent, cst, content,
                                      ClassNodeOf(cst, n))
                      /\ units[u].parent_name = units[units[u].parent].name

\* a tree with a method in a class and a function directly below the file
C12_Witness ==
    /\ ppc = "parsed"
    /\ \E m, f \in DOMAIN units :
          /\ units[m].unit_type = "method"
          /\ units[units[m].parent].unit_type = "class"
          /\ units[f].unit_type = "function"
          /\ units[f].parent = 1
          /\ units[m].start_line < units[f].start_line

RECURSIVE NodeAncestors(_, _)
NodeAncestors(T, n) ==
    IF T[n].parent = 0 THEN {}
    ELSE {T[n].parent} \cup NodeAncestors(T, T[n].parent)

\* the field_identifier that names the function in the declarator of a
\* definition (0 if the declarator has none)
DeclaratorFieldName(T, n) ==
    LET d == _find_child_by_type(T, n, "function_declarator")
    IN IF d = NoNode THEN NoNode ELSE _find_child_by_type(T, d, "field_identifier")

(***************************************************************************)
(* C15: a member function definition whose declarator names the function   *)
(* with a field_identifier yields a method whose name is the text of that  *)
(* field_identifier, also when the parameter list holds identifiers: a     *)
(* parameter name is never taken as the name of the unit.                  *)
(***************************************************************************)
C15_MethodNamedByFieldIdentifier ==
    ppc = "parsed" =>
        \A n \in DOMAIN cst :
            (IsMemberDefinition(cst, n) /\ DeclaratorFieldName(cst, n) # NoNode) =>
                \E u \in DOMAIN units :
                    /\ units[u].unit_type = "method"
                    /\ UnitFromNode(units, u, cst, content, n)
                    /\ units[u].name = <<cst[DeclaratorFieldName(cst, n)].tok>>

\* the walk of _extract_units reaches node n: n is below the root through
\* nodes that are not extracted themselves, or n is a member of a class body
\* that the walk reaches
ReachedByWalk(T, n) ==
    LET Opaque == {"function_definition", "class_specifier", "struct_specifier",
                   "declaration"}
    IN \/ \A a \in NodeAncestors(T, n) : T[a].type \notin Opaque
       \/ /\ IsMemberDefinition(T, n)
          /\ \A a \in NodeAncestors(T, ClassNodeOf(T, n)) : T[a].type \notin Opaque

\* the function declarator of a definition: a child, or nested under
\* pointer or reference declarators (0 if there is none)
RECURSIVE FunctionDeclaratorOf(_, _)
FunctionDeclaratorOf(T, n) ==
    LET fd == _find_child_by_type(T, n, "function_declarator")
        ptr == _find_child_by_type(T, n, "pointer_declarator")
        ref == _find_child_by_type(T, n, "reference_declarator")
    IN IF fd # NoNode THEN fd
       ELSE IF ptr # NoNode THEN FunctionDeclaratorOf(T, ptr)
       ELSE IF ref # NoNode THEN FunctionDeclaratorOf(T, ref)
       ELSE NoNode

(***************************************************************************)
(* C16: every function_definition the walk reaches yields a function or    *)
(* method unit whenever its declarator holds a function declarator with a  *)
(* name (identifier or field_identifier), also when the function           *)
(* declarator is nested under a pointer or reference declarator.           *)
(***************************************************************************)
C16_EveryNamedDefinitionExtracted ==
    ppc = "parsed" =>
        \A n \in DOMAIN cst :
            (/\ cst[n].type = "function_definition"
             /\ ReachedByWalk(cst, n)
             /\ FunctionDeclaratorOf(cst, n) # NoNode
             /\ \E c \in DOMAIN cst :
                   /\ cst[c].parent = FunctionDeclaratorOf(cst, n)
                   /\ cst[c].type \in {"identifier", "field_identifier"})
            => \E u \in DOMAIN units :
                   /\ units[u].unit_type \in {"function", "method"}
                   /\ UnitFromNode(units, u, cst, content, n)

\* the call expressions at or below node n whose callee is a direct
\* identifier child or a field_expression child, in pre-order
CalleeNode(T, c) ==
    LET ident == _find_child_by_type(T, c, "identifier")
    IN IF ident # NoNode THEN ident ELSE _find_child_by_type(T, c, "field_expression")
CallNodes(T, n) ==
    SortedSeq({c \in DOMAIN T :
                  /\ c = n \/ n \in NodeAncestors(T, c)
                  /\ T[c].type = "call_expression"
                  /\ CalleeNode(T, c) # NoNode})

\* the name a call expression calls: the identifier, or the member named
\* last in the field expression
CalledName(T, c) ==
    LET f == CalleeNode(T, c)
        ch == NodeChildren(T, f)
    IN IF T[f].type = "identifier" THEN <<T[f].tok>> ELSE <<T[ch[Len(ch)]].tok>>

(***************************************************************************)
(* C17: inside a function or method every call_expression, at any depth,   *)
(* whose callee is a direct identifier child or a field_expression child   *)
(* yields exactly one call site, in pre-order of the tree, with the line   *)
(* of the call expression; the name recorded for a field expression is     *)
(* only the member name that follows the last '.' or '->'.                 *)
(***************************************************************************)
C17_OneCallSitePerCallExpression ==
    ppc = "parsed" =>
        \A u \in DOMAIN units, n \in DOMAIN cst :
            (/\ units[u].unit_type \in {"function", "method"}
             /\ cst[n].type = "function_definition"
             /\ UnitFromNode(units, u, cst, content, n))
            => LET calls == CallNodes(cst, n) IN
               /\ Len(units[u].function_calls) = Len(calls)
               /\ \A i \in DOMAIN calls :
                     /\ units[u].function_calls[i].line =
                            StartLine(cst, content, calls[i])
                     /\ units[u].function_calls[i].name = CalledName(cst, calls[i])

\* the node type a unit of a given type is made from
NodeTypeOf(unit_type) ==
    CASE unit_type \in {"function", "method"} -> "function_definition"
      [] unit_type = "class" -> "class_specifier"
      [] unit_type = "struct" -> "struct_specifier"
      [] unit_type = "function_declaration" -> "declaration"
      [] OTHER -> "translation_unit"

\* unit u was made from node n, a node of the type that gives u's unit type
MadeFrom(U, u, T, text, n) ==
    T[n].type = NodeTypeOf(U[u].unit_type) /\ UnitFromNode(U, u, T, text, n)

(***************************************************************************)
(* C18: no unit is made from a node that lies inside a function_definition *)
(* or a struct_specifier: function, method, struct and                     *)
(* function_declaration units have no children, and every tree returned by *)
(* parse_file is at most file -> class -> member deep.                     *)
(***************************************************************************)
C18_NoUnitsInsideBodies ==
    ppc = "parsed" =>
        \A u \in DOMAIN units :
            /\ units[u].unit_type \in {"function", "method", "struct",
                                       "function_declaration"}
                  => Children(units, u) = <<>>
            /\ u # 1 =>
                  \/ units[u].parent = 1
                  \/ /\ units[units[u].parent].unit_type = "class"
                     /\ units[units[u].parent].parent = 1
            /\ u # 1 =>
                  \A n \in DOMAIN cst :
                      MadeFrom(units, u, cst, content, n) =>
                          \A a \in NodeAncestors(cst, n) :
                              cst[a].type \notin {"function_definition",
                                                  "struct_specifier"}

\* a function with a local struct, laid out on three lines
C18_Witness ==
    /\ ppc = "parsed"
    /\ cst = CstLocalStruct
    /\ Count(content, NL) = 2
    /\ Len(units) = 2
    /\ units[2].unit_type = "function"
    /\ units[2].end_line = units[2].start_line + 2

\* node n is found by the walk below the file through transparent nodes
\* only, at least one of them a namespace or a linkage specification
UnderNamespace(T, n) ==
    /\ \A a \in NodeAncestors(T, n) :
          T[a].type \in {"translation_unit", "namespace_definition",
                         "linkage_specification", "declaration_list"}
    /\ \E a \in NodeAncestors(T, n) :
          T[a].type \in {"namespace_definition", "linkage_specification"}

\* node n is extractable: the extractor called on it returns a unit
Extractable(T, text, n) ==
    CASE T[n].type = "function_definition" -> _extract_function(T, text, n, None) # <<>>
      [] T[n].type = "class_specifier" -> _find_child_by_type(T, n, "type_identifier") # NoNode
      [] T[n].type = "struct_specifier" -> _extract_struct(T, text, n) # <<>>
      [] OTHER -> FALSE

TypeDefinedWithVariable(T, n) ==
    /\ T[n].type \in {"struct_specifier", "class_specifier"}
    /\ _find_child_by_type(T, n, "type_identifier") # NoNode
    /\ T[n].parent # 0
    /\ T[T[n].parent].type = "declaration"
    /\ _find_descendant_by_type(T, T[n].parent, "function_declarator") = NoNode
    /\ ReachedByWalk(T, T[n].parent)

(***************************************************************************)
(* C20: a declaration that holds no function declarator is walked like any *)
(* other structural node, so a named struct or class defined in it (a type *)
(* defined together with a variable) is extracted as a struct or class     *)
(* unit.                                                                   *)
(***************************************************************************)
C20_TypeInDeclarationExtracted ==
    ppc = "parsed" =>
        \A n \in DOMAIN cst :
            TypeDefinedWithVariable(cst, n) =>
                \E u \in DOMAIN units :
                    /\ units[u].unit_type \in {"struct", "class"}
                    /\ MadeFrom(units, u, cst, content, n)

(***************************************************************************)
(* C21: for every call-graph record written by _store_call_graph,          *)
(* caller_id is the id of the row of the unit whose body contains the call *)
(* site: that unit has a call site with the record's callee name and line, *)
(* also when several function/method units of the batch share the caller's *)
(* name.                                                                   *)
(***************************************************************************)
C21_CallerIdIsTheCallingUnit ==
    GraphStored =>
        \A i \in DOMAIN call_records :
            LET caller == units[UnitOfRecord(call_records[i].caller_id)] IN
            \E k \in DOMAIN caller.function_calls :
                /\ caller.function_calls[k].name = call_records[i].callee_name
                /\ caller.function_calls[k].line = call_records[i].call_line

(***************************************************************************)
(* C22: every edge returned by build_call_graph for a batch is written as  *)
(* exactly one call-graph record, in order: there are as many records as   *)
(* edges and record i carries the callee name and the line of edge i, also *)
(* when the caller's file raised an error after it was parsed.             *)
(***************************************************************************)
C22_EveryEdgeStored ==
    GraphStored =>
        /\ Len(call_records) = Len(call_graph)
        /\ \A i \in DOMAIN call_records :
              /\ call_records[i].callee_name = call_graph[i].callee_name
              /\ call_records[i].call_line = call_graph[i].call_line

(***************************************************************************)
(* Specification SpecMap: ParallelProcessor.map_async                      *)
(* (backend/core/parallel.py:41-87).                                       *)
(*                                                                         *)
(* An item carries the outcome of the coroutine func(item): it returns a   *)
(* value, it raises an exception derived from Exception, or it raises      *)
(* asyncio.CancelledError (derived from BaseException, not from            *)
(* Exception).  The tasks of a batch complete in any order.  Positions are *)
(* counted from 1.                                                         *)
(***************************************************************************)
\* the parser and the code ingestion are not in use
CoreIdle == GraphIdle /\ DirIdle /\ ParseIdle /\ IngestIdle

Outcomes == {"returns", "raises", "cancelled"}

\* the lists of items of every length up to MaxItems; item i is the i-th value
ItemLists ==
    UNION { { [i \in 1..n |-> [val |-> i, outcome |-> o[i]]] :
              o \in [1..n -> Outcomes] } : n \in 0..MaxItems }

\* the value the coroutine func(item) returns
func(item) == item.val

\* what asyncio.gather(..., return_exceptions=True) reports for one task
TaskResult(item) ==
    CASE item.outcome = "returns" -> [kind |-> "value", value |-> func(item)]
      [] item.outcome = "raises" -> [kind |-> "Exception", value |-> 0]
      [] item.outcome = "cancelled" -> [kind |-> "CancelledError", value |-> 0]

\* None as an element of `results`
NoneResult == [kind |-> "None", value |-> 0]

\* isinstance(result, Exception)
IsException(result) == result.kind = "Exception"

\* line 64: batch_size = batch_size or self.max_workers
EffectiveBatchSize == IF mp_batch_size = 0 THEN mp_max_workers ELSE mp_batch_size

\* line 70: batch_indices
BatchIndices ==
    {idx \in DOMAIN mp_items : mp_i <= idx /\ idx < mp_i + EffectiveBatchSize}

\* line 69: batch = items[i:i + batch_size]
Batch == [j \in 1..Cardinality(BatchIndices) |-> mp_items[mp_i + j - 1]]

\* line 74: asyncio.gather(*tasks, return_exceptions=True): the results in
\* the order of the tasks, whatever the order of completion
gather(batch, finished) == [j \in DOMAIN batch |-> TaskResult(batch[j])]

\* lines 77-82: the value stored for one result
Stored(result) == IF IsException(result) THEN NoneResult ELSE result

InitMap ==
    /\ CoreIdle
    /\ PdfIdle
    /\ CancelIdle
    /\ ChunkIdle
    /\ LazyIdle
    /\ LruIdle
    /\ mp_items \in ItemLists
    /\ mp_batch_size \in 0..MaxBatch
    /\ mp_max_workers \in 1..MaxWorkers
    /\ mp_i = 0
    /\ mp_finished = <<>>
    /\ mp_results = <<>>
    /\ mp_completed = 0
    /\ mp_pc = "call"

mapFrame == <<coreVars, pdfVars, cancelVars, chunkVars, lazyVars,
             lruVars>>

\* lines 61-66: the early return for no items, or `results = [None] * len(items)`
CallMapAsync ==
    /\ mp_pc = "call"
    /\ IF mp_items = <<>>
       THEN /\ mp_pc' = "returned"
            /\ UNCHANGED <<mp_i, mp_results>>
       ELSE /\ mp_results' = [i \in DOMAIN mp_items |-> NoneResult]
            /\ mp_i' = 1
            /\ mp_pc' = "batch"
    /\ UNCHANGED <<mp_items, mp_batch_size, mp_max_workers, mp_finished,
                   mp_completed, mapFrame>>

\* lines 68-74: the tasks of the next batch are created and awaited
StartBatch ==
    /\ mp_pc = "batch"
    /\ mp_i <= Len(mp_items)
    /\ mp_finished' = <<>>
    /\ mp_pc' = "gather"
    /\ UNCHANGED <<mp_items, mp_batch_size, mp_max_workers, mp_i, mp_results,
                   mp_completed, mapFrame>>

\* one task of the batch completes (mp_finished holds positions in `batch`)
TaskCompletes ==
    /\ mp_pc = "gather"
    /\ \E k \in DOMAIN Batch \ Range(mp_finished) :
          mp_finished' = Append(mp_finished, k)
    /\ UNCHANGED <<mp_items, mp_batch_size, mp_max_workers, mp_i, mp_results,
                   mp_completed, mp_pc, mapFrame>>

\* lines 74-84: gather returns when every task has completed, and the
\* results of the batch are stored
StoreBatch ==
    /\ mp_pc = "gather"
    /\ Range(mp_finished) = DOMAIN Batch
    /\ LET batch_results == gather(Batch, mp_finished) IN
       mp_results' = [idx \in DOMAIN mp_results |->
                        IF idx \in BatchIndices
                        THEN Stored(batch_results[idx - mp_i + 1])
                        ELSE mp_results[idx]]
    /\ mp_completed' = mp_completed + Cardinality(BatchIndices)
    /\ mp_i' = mp_i + EffectiveBatchSize
    /\ mp_pc' = "batch"
    /\ UNCHANGED <<mp_items, mp_batch_size, mp_max_workers, mp_finished, mapFrame>>

\* line 87: return results
MapReturn ==
    /\ mp_pc = "batch"
    /\ mp_i > Len(mp_items)
    /\ mp_pc' = "returned"
    /\ UNCHANGED <<mp_items, mp_batch_size, mp_max_workers, mp_i, mp_finished,
                   mp_results, mp_completed, mapFrame>>

NextMap == CallMapAsync \/ StartBatch \/ TaskCompletes \/ StoreBatch \/ MapReturn

SpecMap == InitMap /\ [][NextMap]_vars

(***************************************************************************)
(* C23: map_async returns a list as long as items in which position i      *)
(* holds the result of func(items[i]), or None when that task raised,      *)
(* whatever the order in which the tasks of a batch complete and whatever  *)
(* the batch size.                                                         *)
(***************************************************************************)
C23_ResultsInItemOrder ==
    mp_pc = "returned" =>
        /\ Len(mp_results) = Len(mp_items)
        /\ \A i \in DOMAIN mp_items :
              mp_results[i] = IF mp_items[i].outcome = "returns"
                              THEN [kind |-> "value", value |-> func(mp_items[i])]
                              ELSE NoneResult

(***************************************************************************)
(* Specification SpecPdf: DocumentIngestionService._extract_pdf_text       *)
(* (backend/services/ingestion_service.py:781-810) with                    *)
(* _extract_with_unstructured (812-883) and _extract_with_pypdf2           *)
(* (937-962).                                                              *)
(*                                                                         *)
(* A PDF is what the two libraries find in it: whether a library raises,   *)
(* the text it yields ("" for none) and the counts it reports.             *)
(***************************************************************************)
\* class PDFExtractionStrategy (lines 707-711)
UNSTRUCTURED_HI_RES == "unstructured_hi_res"
UNSTRUCTURED_FAST == "unstructured_fast"
PYPDF2_FALLBACK == "pypdf2_fallback"

\* DocumentIngestionService.__init__ (lines 722-730): self.pdf_strategy
InitialStrategy(arg, available) ==
    IF arg # None THEN arg
    ELSE IF available THEN UNSTRUCTURED_FAST
    ELSE PYPDF2_FALLBACK

\* the PDF files
PdfFiles ==
    { f \in [un_raises : BOOLEAN, un_text : {"", "U"}, un_tables : 0..1,
             un_pages : 1..MaxPages,
             py_raises : BOOLEAN, py_text : {"", "P"}, py_pages : 0..MaxPages] :
        /\ f.py_pages = 0 => f.py_text = ""
        /\ f.un_text = "" => f.un_tables = 0 }

\* _extract_with_unstructured (lines 812-883): (text, metadata)
_extract_with_unstructured(f) ==
    IF f.un_raises
    THEN [text |-> "",
          metadata |-> [tables_found |-> 0, images_found |-> 0,
                        pages_processed |-> 0, extraction_quality |-> "failed"]]
    ELSE [text |-> f.un_text,
          metadata |-> [tables_found |-> f.un_tables, images_found |-> 0,
                        pages_processed |-> f.un_pages,
                        extraction_quality |-> "high"]]

\* _extract_with_pypdf2 (lines 937-962): (text, metadata)
_extract_with_pypdf2(f) ==
    IF f.py_raises
    THEN [text |-> "",
          metadata |-> [tables_found |-> 0, images_found |-> 0,
                        pages_processed |-> 0, extraction_quality |-> "failed"]]
    ELSE [text |-> f.py_text,
          metadata |-> [tables_found |-> 0, images_found |-> 0,
                        pages_processed |-> f.py_pages,
                        extraction_quality |-> "basic"]]

\* dict.update: the keys of `other` replace those of d
DictUpdate(d, other) ==
    [k \in DOMAIN d \cup DOMAIN other |-> IF k \in DOMAIN other THEN other[k] ELSE d[k]]

\* a test that tries Unstructured whenever the library is there
UseUnstructuredWhenAvailable == pdf_available

\* lines 795-798: Unstructured is available and configured
UseUnstructured ==
    pdf_available /\ pdf_strategy \in {UNSTRUCTURED_HI_RES, UNSTRUCTURED_FAST}

InitPdf ==
    /\ CoreIdle
    /\ MapIdle
    /\ CancelIdle
    /\ ChunkIdle
    /\ LazyIdle
    /\ LruIdle
    /\ pdf_available \in BOOLEAN
    /\ \E arg \in {None, UNSTRUCTURED_HI_RES, UNSTRUCTURED_FAST, PYPDF2_FALLBACK} :
          pdf_strategy = InitialStrategy(arg, pdf_available)
    /\ pdf_file \in PdfFiles
    /\ pdf_calls = <<>>
    /\ pdf_metadata = <<>>
    /\ pdf_text = ""
    /\ pdf_pc = "call"

pdfFrame == <<coreVars, mapVars, cancelVars, chunkVars, lazyVars,
             lruVars>>

\* lines 786-798: extraction_metadata is set up and the extractor is chosen
CallExtractPdfText ==
    /\ pdf_pc = "call"
    /\ pdf_metadata' = [strategy_used |-> pdf_strategy, tables_found |-> 0,
                        images_found |-> 0, pages_processed |-> 0,
                        extraction_quality |-> "unknown"]
    /\ pdf_pc' = IF UseUnstructured THEN "unstructured" ELSE "pypdf2"
    /\ UNCHANGED <<pdf_strategy, pdf_available, pdf_file, pdf_calls, pdf_text,
                   pdfFrame>>

\* lines 799-805: the Unstructured extraction and the test of its text
ExtractWithUnstructured ==
    /\ pdf_pc = "unstructured"
    /\ pdf_calls' = Append(pdf_calls, "unstructured")
    /\ LET r == _extract_with_unstructured(pdf_file) IN
       IF r.text # ""
       THEN /\ pdf_metadata' = DictUpdate(pdf_metadata, r.metadata)
            /\ pdf_text' = r.text
            /\ pdf_pc' = "returned"
       ELSE /\ pdf_metadata' = [pdf_metadata EXCEPT !.strategy_used = PYPDF2_FALLBACK]
            /\ pdf_pc' = "pypdf2"
            /\ UNCHANGED pdf_text
    /\ UNCHANGED <<pdf_strategy, pdf_available, pdf_file, pdfFrame>>

\* lines 807-810: the PyPDF2 extraction
ExtractWithPypdf2 ==
    /\ pdf_pc = "pypdf2"
    /\ pdf_calls' = Append(pdf_calls, "pypdf2")
    /\ LET r == _extract_with_pypdf2(pdf_file) IN
       /\ pdf_metadata' = DictUpdate(pdf_metadata, r.metadata)
       /\ pdf_text' = r.text
    /\ pdf_pc' = "returned"
    /\ UNCHANGED <<pdf_strategy, pdf_available, pdf_file, pdfFrame>>

NextPdf == CallExtractPdfText \/ ExtractWithUnstructured \/ ExtractWithPypdf2

SpecPdf == InitPdf /\ [][NextPdf]_vars

(***************************************************************************)
(* C24: when an Unstructured strategy is configured and the library is     *)
(* available but its extraction yields empty text, PyPDF2 is run next and  *)
(* the returned metadata has strategy_used = pypdf2_fallback; when the     *)
(* configured strategy is pypdf2_fallback, the Unstructured extractor is   *)
(* never called and strategy_used stays pypdf2_fallback.                   *)
(***************************************************************************)
C24_FallbackStrategyReported ==
    /\ (/\ pdf_pc = "returned"
        /\ pdf_available
        /\ pdf_strategy \in {UNSTRUCTURED_HI_RES, UNSTRUCTURED_FAST}
        /\ (pdf_file.un_raises \/ pdf_file.un_text = ""))
       => /\ pdf_calls = <<"unstructured", "pypdf2">>
          /\ pdf_metadata.strategy_used = PYPDF2_FALLBACK
          /\ pdf_text = _extract_with_pypdf2(pdf_file).text
    /\ pdf_strategy = PYPDF2_FALLBACK =>
          /\ "unstructured" \notin Range(pdf_calls)
          /\ pdf_pc # "call" => pdf_metadata.strategy_used = PYPDF2_FALLBACK

\* Unstructured found no text in a PDF that PyPDF2 could read
C24_Witness ==
    /\ pdf_pc = "returned"
    /\ pdf_available
    /\ pdf_strategy = UNSTRUCTURED_FAST
    /\ ~pdf_file.un_raises
    /\ pdf_text = "P"
    /\ pdf_metadata.strategy_used = PYPDF2_FALLBACK
    /\ pdf_metadata.extraction_quality = "basic"

(***************************************************************************)
(* Specification SpecCancel: a background ingestion started by             *)
(* ingest_git_repository (backend/api/routes/ingestion.py:297-328), i.e.   *)
(* IngestionOrchestrator.ingest_data_source                                *)
(* (backend/services/ingestion_service.py:989-1081) with                   *)
(* _process_documents (1083-1166), and the cancel_ingestion route          *)
(* (routes/ingestion.py:209-246) called while it runs.                     *)
(*                                                                         *)
(* Both run on one event loop, so the task is interleaved with the route   *)
(* at its awaits only: the call of the source service, each                *)
(* vector_service.add_documents call and the sleep before clear_progress.  *)
(* Every document yields one chunk; EmbedBatchSize stands for the batch    *)
(* size of 50 chunks.                                                      *)
(***************************************************************************)
EmbedBatchSize == 2

\* what the source service does: it raises, or it returns
\* {"success": ..., "documents": [...]}
SourceResults ==
    { r \in [raises : BOOLEAN, success : BOOLEAN, documents : 0..MaxDocs] :
        /\ ~r.success => r.documents = 0
        /\ r.raises => ~r.success }

\* after ingest_git_repository has committed the data source and created
\* the task (routes/ingestion.py:297-328)
InitCancel ==
    /\ CoreIdle
    /\ MapIdle
    /\ PdfIdle
    /\ ChunkIdle
    /\ LazyIdle
    /\ LruIdle
    /\ ds_status = "pending"
    /\ cancellation_flag = FALSE
    /\ ingestion_progress = "Initializing"
    /\ src_result \in SourceResults
    /\ db_documents = 0
    /\ embed_i = 0
    /\ vector_chunks = 0
    /\ opc = "created"

cancelFrame == <<coreVars, mapVars, pdfVars, chunkVars, lazyVars,
             lruVars>>

\* ingest_data_source, lines 991-1007: up to the await of the source service
TaskStart ==
    /\ opc = "created"
    /\ ds_status' = "processing"
    /\ ingestion_progress' = "Cloning Repository"
    /\ opc' = "fetching"
    /\ UNCHANGED <<cancellation_flag, src_result, db_documents, embed_i,
                   vector_chunks, cancelFrame>>

\* lines 1065-1072 after _process_documents has returned, and
\* run_ingestion up to its sleep
Complete ==
    /\ ds_status' = "completed"
    /\ ingestion_progress' = "Complete"
    /\ opc' = "sleeping"

\* the source service returns: lines 1052-1077, with _process_documents
\* (lines 1083-1160) up to its first await
FetchReturns ==
    /\ opc = "fetching"
    /\ IF src_result.raises
       THEN \* lines 1079-1081: the exception is caught, the status is left
            /\ opc' = "sleeping"
            /\ UNCHANGED <<ds_status, ingestion_progress, db_documents, embed_i>>
       ELSE IF src_result.success
       THEN /\ db_documents' = db_documents + src_result.documents
            /\ IF src_result.documents > 0
               THEN /\ embed_i' = 1
                    /\ ingestion_progress' = "Creating Embeddings"
                    /\ opc' = "embedding"
                    /\ UNCHANGED ds_status
               ELSE /\ Complete
                    /\ UNCHANGED embed_i
       ELSE /\ ds_status' = "failed"
            /\ opc' = "sleeping"
            /\ UNCHANGED <<ingestion_progress, db_documents, embed_i>>
    /\ UNCHANGED <<cancellation_flag, src_result, vector_chunks, cancelFrame>>

\* vector_service.add_documents returns: the next round of the loop at
\* lines 1148-1160, or lines 1162-1163 and the completion
BatchEmbedded ==
    /\ opc = "embedding"
    /\ \E success \in BOOLEAN :
          vector_chunks' = IF success
                           THEN vector_chunks +
                                Cardinality({c \in 1..db_documents :
                                    embed_i <= c /\ c < embed_i + EmbedBatchSize})
                           ELSE vector_chunks
    /\ embed_i' = embed_i + EmbedBatchSize
    /\ IF embed_i' <= db_documents
       THEN /\ ingestion_progress' = "Creating Embeddings"
            /\ UNCHANGED <<ds_status, opc>>
       ELSE Complete
    /\ UNCHANGED <<cancellation_flag, src_result, db_documents, cancelFrame>>

\* run_ingestion after the sleep: clear_progress (routes/ingestion.py:75-81)
ClearProgress ==
    /\ opc = "sleeping"
    /\ ingestion_progress' = None
    /\ cancellation_flag' = FALSE
    /\ opc' = "done"
    /\ UNCHANGED <<ds_status, src_result, db_documents, embed_i, vector_chunks,
                   cancelFrame>>

\* cancel_ingestion (routes/ingestion.py:209-246), when it does not answer 400
CancelIngestion ==
    /\ opc # "idle"
    /\ ingestion_progress # None \/ ds_status \in {"pending", "processing"}
    /\ cancellation_flag' = TRUE
    /\ ds_status' = "cancelled"
    /\ ingestion_progress' = "Cancelled"
    /\ UNCHANGED <<src_result, db_documents, embed_i, vector_chunks, opc,
                   cancelFrame>>

NextCancel ==
    \/ TaskStart
    \/ FetchReturns
    \/ BatchEmbedded
    \/ ClearProgress
    \/ CancelIngestion

SpecCancel == InitCancel /\ [][NextCancel]_vars

(***************************************************************************)
(* C25: once cancel_ingestion has set the status of the data source to     *)
(* cancelled, no later step of the ingestion sets the status to completed  *)
(* or failed, and the ingestion stores no further document.                *)
(***************************************************************************)
C25_CancelledIngestionStops ==
    [][ds_status = "cancelled" =>
          /\ ds_status' \notin {"completed", "failed"}
          /\ db_documents' = db_documents
          /\ vector_chunks' = vector_chunks]_vars

(***************************************************************************)
(* Specification SpecChunk: TextChunker.chunk_text                         *)
(* (backend/services/ingestion_service.py:60-107).                         *)
(*                                                                         *)
(* A text is a sequence of characters; `start` and `end` are Python        *)
(* offsets, counted from 0, and a slice is taken as Python takes it, a     *)
(* negative offset counting from the end of the text.                      *)
(***************************************************************************)
IntMax(a, b) == IF a >= b THEN a ELSE b
IntMin(a, b) == IF a <= b THEN a ELSE b

\* the characters of a text
Chars == {"a", ".", NL}

\* the texts of every length up to MaxText
Texts == UNION { [1..n -> Chars] : n \in 0..MaxText }

\* Python's text[a:b]
PySlice(text, a, b) ==
    LET n == Len(text)
        lo == IF a < 0 THEN IntMax(a + n, 0) ELSE IntMin(a, n)
        hi == IF b < 0 THEN IntMax(b + n, 0) ELSE IntMin(b, n)
    IN IF lo < hi THEN SubSeq(text, lo + 1, hi) ELSE <<>>

\* str.rfind: the last offset of character c in s, -1 if there is none
RFind(s, c) ==
    IF \E i \in DOMAIN s : s[i] = c
    THEN (CHOOSE i \in DOMAIN s : s[i] = c /\ \A j \in DOMAIN s : s[j] = c => j <= i) - 1
    ELSE -1

\* str.strip: the text without its leading and trailing whitespace
RECURSIVE Strip(_)
Strip(s) ==
    IF s = <<>> THEN s
    ELSE IF Head(s) = NL THEN Strip(Tail(s))
    ELSE IF s[Len(s)] = NL THEN Strip(SubSeq(s, 1, Len(s) - 1))
    ELSE s

\* _build_line_index (lines 44-50): the offsets at which the lines start
_build_line_index(text) == {0} \cup {j \in DOMAIN text : text[j] = NL}

\* _char_to_line (lines 52-57): the index of the first line start beyond
\* char_pos, or the number of lines
_char_to_line(char_pos, line_starts) ==
    Cardinality({st \in line_starts : st <= char_pos})

\* lines 72-83: the end offset of the chunk that starts at `start`
ChunkEnd(text, start, size) ==
    LET end == start + size
        chunk == PySlice(text, start, end)
        break_point == IntMax(RFind(chunk, "."), RFind(chunk, NL))
    IN IF end < Len(text) /\ break_point > size \div 2
       THEN start + break_point + 1
       ELSE end

\* lines 72-102: the chunk that starts at `start`
MakeChunk(text, start, size, index) ==
    LET end == ChunkEnd(text, start, size)
        line_starts == _build_line_index(text)
    IN [content |-> Strip(PySlice(text, start, end)),
        chunk_index |-> index,
        start_char |-> start,
        end_char |-> end,
        start_line |-> _char_to_line(start, line_starts),
        end_line |-> _char_to_line(IntMin(end, Len(text) - 1), line_starts)]

\* a chunker for every chunk_size and chunk_overlap with
\* 0 < chunk_overlap < chunk_size, and a text
InitChunk ==
    /\ CoreIdle
    /\ MapIdle
    /\ PdfIdle
    /\ CancelIdle
    /\ LazyIdle
    /\ LruIdle
    /\ ck_text \in Texts
    /\ chunk_size \in 2..MaxChunkSize
    /\ chunk_overlap \in 1..(chunk_size - 1)
    /\ ck_start = 0
    /\ ck_chunks = <<>>
    /\ ck_pc = "call"

chunkFrame == <<coreVars, mapVars, pdfVars, cancelVars, lazyVars,
             lruVars>>

\* lines 62-70
CallChunkText ==
    /\ ck_pc = "call"
    /\ ck_pc' = IF Strip(ck_text) = <<>> THEN "returned" ELSE "loop"
    /\ UNCHANGED <<ck_text, chunk_size, chunk_overlap, ck_start, ck_chunks, chunkFrame>>

\* one round of `while start < len(text):` (lines 72-105)
ChunkStep ==
    /\ ck_pc = "loop"
    /\ ck_start < Len(ck_text)
    /\ Len(ck_chunks) < MaxChunks
    /\ ck_chunks' = Append(ck_chunks,
                           MakeChunk(ck_text, ck_start, chunk_size, Len(ck_chunks)))
    /\ ck_start' = ChunkEnd(ck_text, ck_start, chunk_size) - chunk_overlap
    /\ UNCHANGED <<ck_text, chunk_size, chunk_overlap, ck_pc, chunkFrame>>

\* line 107: return chunks
ChunkReturn ==
    /\ ck_pc = "loop"
    /\ ck_start >= Len(ck_text)
    /\ ck_pc' = "returned"
    /\ UNCHANGED <<ck_text, chunk_size, chunk_overlap, ck_start, ck_chunks, chunkFrame>>

NextChunk == CallChunkText \/ ChunkStep \/ ChunkReturn

SpecChunk == InitChunk /\ [][NextChunk]_vars

(***************************************************************************)
(* C26: whenever 0 < chunk_overlap < chunk_size, the start offset strictly *)
(* increases from each chunk to the next (so that chunk_text terminates),  *)
(* also when a chunk is cut short at a '.' or newline break point.         *)
(***************************************************************************)
C26_StartStrictlyIncreases ==
    [][ck_chunks' # ck_chunks => ck_start' > ck_start]_vars

(***************************************************************************)
(* Specification SpecLazy: LazyService (backend/core/service_registry.py:  *)
(* 17-52) used by several threads.                                         *)
(*                                                                         *)
(* A thread runs one call at a time; a step of a thread is one read or one *)
(* write of a field, or taking or releasing the lock.  The objects the     *)
(* factory builds are numbered 1, 2, ...; 0 stands for None.               *)
(***************************************************************************)
Threads == 1..NumThreads

\* a thread has not returned from an `instance` call yet
NoReturn == -1

\* LazyService.__init__ (lines 23-28)
InitLazy ==
    /\ CoreIdle
    /\ MapIdle
    /\ PdfIdle
    /\ CancelIdle
    /\ ChunkIdle
    /\ LruIdle
    /\ ls_instance = 0
    /\ ls_init_time = FALSE
    /\ ls_lock = 0
    /\ ls_pc = [t \in Threads |-> "idle"]
    /\ ls_ret = [t \in Threads |-> NoReturn]
    /\ ls_built = 0
    /\ ls_runs = 0
    /\ ls_ops = 0

lazyFrame == <<coreVars, mapVars, pdfVars, cancelVars, chunkVars,
             lruVars>>

\* thread t moves to position p
Goto(t, p) == ls_pc' = [ls_pc EXCEPT ![t] = p]

\* a thread calls the property `instance`
BeginInstance ==
    \E t \in Threads :
        /\ ls_pc[t] = "idle"
        /\ ls_ops < MaxOps
        /\ ls_ops' = ls_ops + 1
        /\ Goto(t, "check1")
        /\ UNCHANGED <<ls_instance, ls_init_time, ls_lock, ls_ret, ls_built,
                       ls_runs, lazyFrame>>

\* line 33: if self._instance is None (outside the lock)
Check1 ==
    \E t \in Threads :
        /\ ls_pc[t] = "check1"
        /\ Goto(t, IF ls_instance = 0 THEN "acquire" ELSE "return")
        /\ UNCHANGED <<ls_instance, ls_init_time, ls_lock, ls_ret, ls_built,
                       ls_runs, ls_ops, lazyFrame>>

\* line 34: with self._lock
Acquire ==
    \E t \in Threads :
        /\ ls_pc[t] = "acquire"
        /\ ls_lock = 0
        /\ ls_lock' = t
        /\ Goto(t, "check2")
        /\ UNCHANGED <<ls_instance, ls_init_time, ls_ret, ls_built, ls_runs,
                       ls_ops, lazyFrame>>

\* line 35: if self._instance is None (under the lock)
Check2 ==
    \E t \in Threads :
        /\ ls_pc[t] = "check2"
        /\ Goto(t, IF ls_instance = 0 THEN "factory" ELSE "release")
        /\ UNCHANGED <<ls_instance, ls_init_time, ls_lock, ls_ret, ls_built,
                       ls_runs, ls_ops, lazyFrame>>

\* line 38: self._instance = self._factory()
RunFactory ==
    \E t \in Threads :
        /\ ls_pc[t] = "factory"
        /\ ls_built' = ls_built + 1
        /\ ls_instance' = ls_built'
        /\ ls_runs' = ls_runs + 1
        /\ Goto(t, "settime")
        /\ UNCHANGED <<ls_init_time, ls_lock, ls_ret, ls_ops, lazyFrame>>

\* line 39: self._init_time = time.time() - start
SetInitTime ==
    \E t \in Threads :
        /\ ls_pc[t] = "settime"
        /\ ls_init_time' = TRUE
        /\ Goto(t, "release")
        /\ UNCHANGED <<ls_instance, ls_lock, ls_ret, ls_built, ls_runs, ls_ops,
                       lazyFrame>>

\* the end of the with block of `instance`
Release ==
    \E t \in Threads :
        /\ ls_pc[t] = "release"
        /\ ls_lock' = 0
        /\ Goto(t, "return")
        /\ UNCHANGED <<ls_instance, ls_init_time, ls_ret, ls_built, ls_runs,
                       ls_ops, lazyFrame>>

\* line 41: return self._instance
ReturnInstance ==
    \E t \in Threads :
        /\ ls_pc[t] = "return"
        /\ ls_ret' = [ls_ret EXCEPT ![t] = ls_instance]
        /\ Goto(t, "idle")
        /\ UNCHANGED <<ls_instance, ls_init_time, ls_lock, ls_built, ls_runs,
                       ls_ops, lazyFrame>>

\* a thread calls reset()
BeginReset ==
    \E t \in Threads :
        /\ ls_pc[t] = "idle"
        /\ ls_ops < MaxOps
        /\ ls_ops' = ls_ops + 1
        /\ Goto(t, "r_acquire")
        /\ UNCHANGED <<ls_instance, ls_init_time, ls_lock, ls_ret, ls_built,
                       ls_runs, lazyFrame>>

\* line 50: with self._lock
ResetAcquire ==
    \E t \in Threads :
        /\ ls_pc[t] = "r_acquire"
        /\ ls_lock = 0
        /\ ls_lock' = t
        /\ Goto(t, "r_clear")
        /\ UNCHANGED <<ls_instance, ls_init_time, ls_ret, ls_built, ls_runs,
                       ls_ops, lazyFrame>>

\* line 51: self._instance = None
ResetClear ==
    \E t \in Threads :
        /\ ls_pc[t] = "r_clear"
        /\ ls_instance' = 0
        /\ ls_runs' = 0
        /\ Goto(t, "r_release")
        /\ UNCHANGED <<ls_init_time, ls_lock, ls_ret, ls_built, ls_ops, lazyFrame>>

\* line 52: self._init_time = None, and the end of the with block
ResetRelease ==
    \E t \in Threads :
        /\ ls_pc[t] = "r_release"
        /\ ls_init_time' = FALSE
        /\ ls_lock' = 0
        /\ Goto(t, "idle")
        /\ UNCHANGED <<ls_instance, ls_ret, ls_built, ls_runs, ls_ops, lazyFrame>>

NextLazy ==
    \/ BeginInstance
    \/ Check1
    \/ Acquire
    \/ Check2
    \/ RunFactory
    \/ SetInitTime
    \/ Release
    \/ ReturnInstance
    \/ BeginReset
    \/ ResetAcquire
    \/ ResetClear
    \/ ResetRelease

SpecLazy == InitLazy /\ [][NextLazy]_vars

(***************************************************************************)
(* C27: under any interleaving of threads calling `instance` and `reset`,  *)
(* every call of `instance` returns an object built by the factory, never  *)
(* None, and between two resets the factory runs at most once.             *)
(***************************************************************************)
C27_InstanceNeverNone ==
    /\ \A t \in Threads : ls_ret[t] # NoReturn => ls_ret[t] \in 1..ls_built
    /\ ls_runs <= 1

(***************************************************************************)
(* Specification SpecLru: LRUCache (backend/core/cache.py:35-123).         *)
(*                                                                         *)
(* Every method runs under the lock of the cache, so a call is one step.   *)
(* The OrderedDict is the sequence of its entries, oldest first, each with *)
(* its key.  Time is a counter that advances between calls.  lru_used and  *)
(* lru_clock record, for each key, the call at which it was last set or    *)
(* returned by a get.                                                      *)
(***************************************************************************)
CacheKeys == {"a", "b", "c"}

\* ttl = None
NoTtl == -1

\* the keys of the cache
KeysOf(cache) == {cache[i].key : i \in DOMAIN cache}

\* self._cache[cache_key]
EntryOf(cache, k) == cache[CHOOSE i \in DOMAIN cache : cache[i].key = k]

\* CacheEntry.is_expired (lines 29-32)
is_expired(entry, now) ==
    IF entry.ttl = NoTtl THEN FALSE ELSE now - entry.created_at > entry.ttl

\* del self._cache[cache_key]
DelKey(cache, k) == SelectSeq(cache, LAMBDA e : e.key # k)

\* a move_to_end that leaves the order as it is
move_to_end_noop(cache, k) == cache

\* OrderedDict.move_to_end(cache_key)
move_to_end(cache, k) == Append(DelKey(cache, k), EntryOf(cache, k))

\* lines 91-93: popitem(last=False) while the cache is at capacity
RECURSIVE EvictOldest(_, _)
EvictOldest(cache, max_size) ==
    IF Len(cache) >= max_size THEN EvictOldest(Tail(cache), max_size) ELSE cache

\* LRUCache.__init__ (lines 41-46)
InitLru ==
    /\ CoreIdle
    /\ MapIdle
    /\ PdfIdle
    /\ CancelIdle
    /\ ChunkIdle
    /\ LazyIdle
    /\ lru_cache = <<>>
    /\ lru_max_size \in 1..MaxSize
    /\ lru_default_ttl \in {NoTtl, 1}
    /\ lru_stats = [hits |-> 0, misses |-> 0, evictions |-> 0]
    /\ lru_now = 0
    /\ lru_last = [op |-> "init", key |-> None, result |-> None]
    /\ lru_used = [k \in CacheKeys |-> 0]
    /\ lru_clock = 0

lruFrame == <<coreVars, mapVars, pdfVars, cancelVars, chunkVars, lazyVars>>

\* one more call on the cache
Called(op, k, result) ==
    /\ lru_clock < MaxCacheOps
    /\ lru_clock' = lru_clock + 1
    /\ lru_last' = [op |-> op, key |-> k, result |-> result]

\* LRUCache.get (lines 58-79)
LruGet ==
    \E k \in CacheKeys :
        /\ IF k \notin KeysOf(lru_cache)
           THEN /\ lru_stats' = [lru_stats EXCEPT !.misses = @ + 1]
                /\ Called("get", k, None)
                /\ UNCHANGED <<lru_cache, lru_used>>
           ELSE IF is_expired(EntryOf(lru_cache, k), lru_now)
           THEN /\ lru_cache' = DelKey(lru_cache, k)
                /\ lru_stats' = [lru_stats EXCEPT !.misses = @ + 1]
                /\ Called("get", k, None)
                /\ UNCHANGED lru_used
           ELSE /\ lru_cache' =
                      LET moved == move_to_end(lru_cache, k) IN
                      [i \in DOMAIN moved |->
                          IF moved[i].key = k
                          THEN [moved[i] EXCEPT !.hits = @ + 1]
                          ELSE moved[i]]
                /\ lru_stats' = [lru_stats EXCEPT !.hits = @ + 1]
                /\ Called("get", k, EntryOf(lru_cache, k).value)
                /\ lru_used' = [lru_used EXCEPT ![k] = lru_clock']
        /\ UNCHANGED <<lru_max_size, lru_default_ttl, lru_now, lruFrame>>

\* LRUCache.set (lines 81-99)
LruSet ==
    \E k \in CacheKeys, value \in {"x"}, ttl \in {NoTtl, 0} :
        LET removed == DelKey(lru_cache, k)
            kept == EvictOldest(removed, lru_max_size)
        IN /\ lru_cache' = Append(kept,
                               [key |-> k, value |-> value, created_at |-> lru_now,
                                ttl |-> IF ttl # NoTtl THEN ttl ELSE lru_default_ttl,
                                hits |-> 0])
           /\ lru_stats' = [lru_stats EXCEPT
                               !.evictions = @ + Len(removed) - Len(kept)]
           /\ Called("set", k, None)
           /\ lru_used' = [lru_used EXCEPT ![k] = lru_clock']
           /\ UNCHANGED <<lru_max_size, lru_default_ttl, lru_now, lruFrame>>

\* LRUCache.delete (lines 101-109)
LruDelete ==
    \E k \in CacheKeys :
        /\ lru_cache' = DelKey(lru_cache, k)
        /\ Called("delete", k, IF k \in KeysOf(lru_cache) THEN "True" ELSE "False")
        /\ UNCHANGED <<lru_max_size, lru_default_ttl, lru_stats, lru_now, lru_used,
                       lruFrame>>

\* LRUCache.clear (lines 111-114)
LruClear ==
    /\ lru_cache' = <<>>
    /\ Called("clear", None, None)
    /\ UNCHANGED <<lru_max_size, lru_default_ttl, lru_stats, lru_now, lru_used,
                   lruFrame>>

\* LRUCache.cleanup_expired (lines 116-126)
LruCleanupExpired ==
    /\ lru_cache' = SelectSeq(lru_cache, LAMBDA e : ~is_expired(e, lru_now))
    /\ Called("cleanup_expired", None, "removed")
    /\ UNCHANGED <<lru_max_size, lru_default_ttl, lru_stats, lru_now, lru_used,
                   lruFrame>>

\* time passes
LruTick ==
    /\ lru_now < MaxTime
    /\ lru_now' = lru_now + 1
    /\ UNCHANGED <<lru_cache, lru_max_size, lru_default_ttl, lru_stats, lru_last,
                   lru_used, lru_clock, lruFrame>>

NextLru ==
    \/ LruGet
    \/ LruSet
    \/ LruDelete
    \/ LruClear
    \/ LruCleanupExpired
    \/ LruTick

SpecLru == InitLru /\ [][NextLru]_vars

\* the key of the cache that was least recently set or returned by a get
LeastRecentlyUsed(cache, used) ==
    CHOOSE k \in KeysOf(cache) : \A j \in KeysOf(cache) : used[k] <= used[j]

(***************************************************************************)
(* C28: with max_size >= 1, after any sequence of get, set, delete and     *)
(* cleanup_expired calls the cache holds at most max_size entries, and a   *)
(* set of a new key into a full cache evicts exactly one entry, the one    *)
(* least recently set or returned by a successful get.                     *)
(***************************************************************************)
C28_BoundedAndEvictsLeastRecentlyUsed ==
    /\ [](Len(lru_cache) <= lru_max_size)
    /\ [][(/\ lru_clock' # lru_clock
           /\ lru_last'.op = "set"
           /\ lru_last'.key \notin KeysOf(lru_cache)
           /\ Len(lru_cache) = lru_max_size)
          => /\ KeysOf(lru_cache') =
                   (KeysOf(lru_cache) \ {LeastRecentlyUsed(lru_cache, lru_used)})
                       \cup {lru_last'.key}
             /\ lru_stats'.evictions = lru_stats.evictions + 1]_vars

\* a key was set into a full cache after a get had made the older entry the
\* more recently used one: the entry set second was evicted
C28_Witness ==
    /\ lru_last.op = "set"
    /\ lru_max_size = 2
    /\ Len(lru_cache) = 2
    /\ lru_stats.evictions = 1
    /\ lru_cache[1].hits = 1
    /\ lru_cache[2].key = lru_last.key
    /\ \E e \in CacheKeys \ KeysOf(lru_cache) : lru_used[e] = 2

\* the supported files of the batch
SupportedInputs == {i \in DOMAIN in_files : is_supported_file(in_files[i].path.name)}

RecordsOf(u) == {k \in DOMAIN all_code_units : all_code_units[k].unit = u}

\* the CodeUnit row of a processed unit
RowOf(pu) == code_unit_records[pu.db_id]

(***************************************************************************)
(* C30: for a file given to _process_file_units, every unit of the file's  *)
(* tree is persisted as exactly one record; a record has a non-null        *)
(* parent_id if and only if its unit is a child of a class (and parent_id  *)
(* is then the id of the class's record); and the summary stored with each *)
(* method record is the one generated from that method's own code, also    *)
(* when several methods of the class share a name.                         *)
(***************************************************************************)
C30_OneRecordPerUnitOwnSummary ==
    \A k \in DOMAIN all_code_units :
        LET pu == all_code_units[k]
            u == pu.unit
        IN /\ units[u].unit_type = "file" =>
                 \A d \in Subtree(units, u) : Cardinality(RecordsOf(d)) = 1
           /\ RowOf(pu).code = units[u].code
           /\ RowOf(pu).parent_id # NoId <=>
                 (units[u].parent # 0 /\ units[units[u].parent].unit_type = "class")
           /\ RowOf(pu).parent_id # NoId =>
                 \E c \in RecordsOf(units[u].parent) :
                     all_code_units[c].db_id = RowOf(pu).parent_id
           /\ units[u].unit_type = "method" =>
                 /\ RowOf(pu).summary = Summary(units, u, EmptyDict)
                 /\ pu.summary = Summary(units, u, EmptyDict)

====
